---- MODULE Spec2Model ----
(***************************************************************************)
(* Model of the annotation-comments library: the tag scanner, the parent   *)
(* comment locator, the orchestrator with its ignore window, and the code  *)
(* cleaner.  Code lines are sequences of one-character strings; columns    *)
(* are zero-based as in the source, so column c of a line is element c+1.  *)
(***************************************************************************)
EXTENDS Integers, Sequences, FiniteSets, TLC

(***************************************************************************)
(* Characters and strings                                                  *)
(***************************************************************************)

\* `undefined` for an optional column
Undef == -1

BackslashChar == "\\"

Digits == <<"0", "1", "2", "3", "4", "5", "6", "7", "8", "9">>

\* line.length
StrLen(s) == Len(s)

\* s[i] for a zero-based index i; "" stands for `undefined` (out of range)
CharAt(s, i) == IF i >= 0 /\ i < Len(s) THEN s[i + 1] ELSE ""

\* the character class \s
IsWhitespace(c) == c \in {" ", "\t"}

\* the character class \d
IsDigit(c) == c \in {"0", "1", "2", "3", "4", "5", "6", "7", "8", "9"}

DigitValue(c) == CHOOSE d \in 0..9 : Digits[d + 1] = c

Min(a, b) == IF a < b THEN a ELSE b

\* `const x = v` followed by the statements F that read x
With(v, F(_)) == F(v)

\* s.slice(from, to) for 0 <= from; `to` is clamped to the length
Slice(s, from, to) ==
    LET t == Min(to, Len(s))
    IN IF from >= t THEN <<>> ELSE SubSeq(s, from + 1, t)

\* s.slice(from)
SliceFrom(s, from) == Slice(s, from, Len(s))

\* s.startsWith(prefix, at)
StartsWithAt(s, prefix, at) ==
    /\ at + Len(prefix) <= Len(s)
    /\ \A k \in 1..Len(prefix) : s[at + k] = prefix[k]

\* s.search(/\S/): index of the first non-whitespace character, or -1
RECURSIVE SearchNonWhitespaceFrom(_, _)
SearchNonWhitespaceFrom(s, i) ==
    IF i >= Len(s) THEN -1
    ELSE IF ~IsWhitespace(s[i + 1]) THEN i
    ELSE SearchNonWhitespaceFrom(s, i + 1)

SearchNonWhitespace(s) == SearchNonWhitespaceFrom(s, 0)

\* s.trim() === ''
IsBlank(s) == \A k \in 1..Len(s) : IsWhitespace(s[k])

\* s.trimEnd()
RECURSIVE TrimEnd(_)
TrimEnd(s) ==
    IF Len(s) = 0 THEN s
    ELSE IF IsWhitespace(s[Len(s)]) THEN TrimEnd(SubSeq(s, 1, Len(s) - 1))
    ELSE s

\* Number(digits) for a non-empty run of digits
RECURSIVE DigitsToNat(_)
DigitsToNat(s) ==
    IF Len(s) = 0 THEN 0
    ELSE 10 * DigitsToNat(SubSeq(s, 1, Len(s) - 1)) + DigitValue(s[Len(s)])

(***************************************************************************)
(* Tag scanner: annotationTagRegex                                         *)
(***************************************************************************)

NoMatch == [ok |-> FALSE]

\* the first alternative of a regex group if it matches, otherwise the next
OrElse(m, next) == IF m.ok THEN m ELSE next

\* end of the maximal run of digits starting at p
RECURSIVE DigitRunEnd(_, _)
DigitRunEnd(line, p) ==
    IF IsDigit(CharAt(line, p)) THEN DigitRunEnd(line, p + 1) ELSE p

\* The tail of the regex at column p: (?::(-?\d+))?\]
MatchRangeAndClose(line, p) ==
    LET signed == CharAt(line, p + 1) = "-"
        digitsStart == IF signed THEN p + 2 ELSE p + 1
        digitsEnd == DigitRunEnd(line, digitsStart)
        withRange == /\ CharAt(line, p) = ":"
                     /\ digitsEnd > digitsStart
                     /\ CharAt(line, digitsEnd) = "]"
        magnitude == DigitsToNat(Slice(line, digitsStart, digitsEnd))
    IN IF withRange
       THEN [ok |-> TRUE, end |-> digitsEnd + 1, hasRange |-> TRUE,
             range |-> IF signed THEN 0 - magnitude ELSE magnitude]
       ELSE IF CharAt(line, p) = "]"
       THEN [ok |-> TRUE, end |-> p + 1, hasRange |-> FALSE, range |-> 0]
       ELSE NoMatch

\* A delimited query that opened at column q: the lazy body (?:[^\\]|\\.)*?
\* is extended item by item from column p until the closing delimiter is
\* followed by a matching tail.
RECURSIVE MatchDelimitedBody(_, _, _, _)
MatchDelimitedBody(line, delimiter, q, p) ==
    IF p >= Len(line) THEN NoMatch
    ELSE With(MatchRangeAndClose(line, p + 1), LAMBDA tail :
         LET c == CharAt(line, p)
         IN IF c = delimiter /\ tail.ok
            THEN [ok |-> TRUE, queryStart |-> q, queryEnd |-> p + 1, tail |-> tail]
            ELSE IF c = BackslashChar
            THEN IF p + 1 < Len(line)
                 THEN MatchDelimitedBody(line, delimiter, q, p + 2)
                 ELSE NoMatch
            ELSE MatchDelimitedBody(line, delimiter, q, p + 1))

MatchDelimitedQuery(line, delimiter, q) ==
    IF CharAt(line, q) = delimiter
    THEN MatchDelimitedBody(line, delimiter, q, q + 1)
    ELSE NoMatch

\* The non-quoted query: the lazy body (?:[^\\:\]]|\\.)+? with `items`
\* parts consumed so far, ending at column p.
RECURSIVE MatchPlainBody(_, _, _, _)
MatchPlainBody(line, q, p, items) ==
    With(MatchRangeAndClose(line, p), LAMBDA tail :
    LET c == CharAt(line, p)
    IN IF items > 0 /\ tail.ok
       THEN [ok |-> TRUE, queryStart |-> q, queryEnd |-> p, tail |-> tail]
       ELSE IF p >= Len(line) THEN NoMatch
       ELSE IF c = BackslashChar
       THEN IF p + 1 < Len(line)
            THEN MatchPlainBody(line, q, p + 2, items + 1)
            ELSE NoMatch
       ELSE IF c \in {":", "]"} THEN NoMatch
       ELSE MatchPlainBody(line, q, p + 1, items + 1))

MatchPlainQuery(line, q) ==
    LET startsLikeNumber ==
            \/ IsDigit(CharAt(line, q))
            \/ CharAt(line, q) = "-" /\ IsDigit(CharAt(line, q + 1))
    IN IF startsLikeNumber THEN NoMatch ELSE MatchPlainBody(line, q, q, 0)

\* The optional search query group at column p (right after the name),
\* followed by the tail.  Alternatives are tried in the order of the regex.
MatchQueryAndTail(line, p) ==
    LET withQuery ==
            IF CharAt(line, p) = ":"
            THEN OrElse(MatchDelimitedQuery(line, "\"", p + 1),
                 OrElse(MatchDelimitedQuery(line, "'", p + 1),
                 OrElse(MatchDelimitedQuery(line, "/", p + 1),
                        MatchPlainQuery(line, p + 1))))
            ELSE NoMatch
        withoutQuery ==
            With(MatchRangeAndClose(line, p), LAMBDA noQuery :
                IF noQuery.ok
                THEN [ok |-> TRUE, queryStart |-> Undef, queryEnd |-> Undef,
                      tail |-> noQuery]
                ELSE NoMatch)
    IN OrElse(withQuery, withoutQuery)

\* end of the maximal run of name characters [^:\]\s] starting at p
RECURSIVE NameRunEnd(_, _)
NameRunEnd(line, p) ==
    LET c == CharAt(line, p)
    IN IF p >= Len(line) \/ c \in {":", "]"} \/ IsWhitespace(c)
       THEN p
       ELSE NameRunEnd(line, p + 1)

\* The name and everything after it, with the name starting at column p.
\* A name shorter than the maximal run is followed by a name character, which
\* neither optional group nor the closing bracket accepts.
MatchNameAndRest(line, p) ==
    LET nameEnd == NameRunEnd(line, p)
    IN With(MatchQueryAndTail(line, nameEnd), LAMBDA rest :
           IF nameEnd > p /\ rest.ok
           THEN [ok |-> TRUE, nameStart |-> p, nameEnd |-> nameEnd, rest |-> rest]
           ELSE NoMatch)

CodePrefix == <<"c", "o", "d", "e", " ">>

\* One attempt of annotationTagRegex anchored at column i
MatchTagAt(line, i) ==
    LET opened == StartsWithAt(line, <<"[", "!">>, i)
        withPrefix == IF opened /\ StartsWithAt(line, CodePrefix, i + 2)
                      THEN MatchNameAndRest(line, i + 2 + Len(CodePrefix))
                      ELSE NoMatch
        withoutPrefix == IF opened THEN MatchNameAndRest(line, i + 2) ELSE NoMatch
    IN With(OrElse(withPrefix, withoutPrefix), LAMBDA m :
       IF ~m.ok THEN NoMatch
       ELSE [ok |-> TRUE,
             index |-> i,
             end |-> m.rest.tail.end,
             name |-> Slice(line, m.nameStart, m.nameEnd),
             hasQuery |-> m.rest.queryStart # Undef,
             rawTargetSearchQuery |->
                 IF m.rest.queryStart = Undef THEN <<>>
                 ELSE Slice(line, m.rest.queryStart, m.rest.queryEnd),
             hasRange |-> m.rest.tail.hasRange,
             range |-> m.rest.tail.range])

\* line.matchAll(annotationTagRegex): all non-overlapping matches, left to right
RECURSIVE MatchAllTagsFrom(_, _)
MatchAllTagsFrom(line, i) ==
    IF i >= Len(line) THEN <<>>
    ELSE With(MatchTagAt(line, i), LAMBDA m :
            IF m.ok
            THEN <<m>> \o MatchAllTagsFrom(line, m.end)
            ELSE MatchAllTagsFrom(line, i + 1))

MatchAllTags(line) == MatchAllTagsFrom(line, 0)

(***************************************************************************)
(* Tag scanner: search query parsing                                       *)
(***************************************************************************)

\* query.replace(getEscapeSequenceRegExp(...delimiters), '$1'): a backslash
\* followed by a backslash or by one of the delimiters is replaced by that
\* character; every other backslash stays.
RECURSIVE Unescape(_, _)
Unescape(s, delimiters) ==
    IF Len(s) = 0 THEN s
    ELSE IF /\ s[1] = BackslashChar
            /\ Len(s) >= 2
            /\ s[2] \in ({BackslashChar} \cup delimiters)
    THEN <<s[2]>> \o Unescape(SubSeq(s, 3, Len(s)), delimiters)
    ELSE <<s[1]>> \o Unescape(SubSeq(s, 2, Len(s)), delimiters)

plainValueEscapeSequence == {BackslashChar, ":", "]"}

\* delimitedValueEscapeSequences.get(delimiter)
delimitedValueEscapeSequences(delimiter) ==
    IF delimiter = "\"" THEN {BackslashChar, "\""}
    ELSE IF delimiter = "'" THEN {BackslashChar, "'"}
    ELSE {"/"}

IsQueryDelimiter(c) == c \in {"\"", "'", "/"}

\* Whether `new RegExp(pattern, flags)` accepts the pattern.  Covers the
\* syntax errors of patterns built from literals, groups, classes, escapes,
\* alternation and the quantifiers * + ?: an unterminated or unmatched
\* group, an unterminated class, a trailing backslash, nothing to repeat.
RECURSIVE RegExpSyntaxOk(_, _, _, _, _)
RegExpSyntaxOk(pattern, i, depth, inClass, canRepeat) ==
    LET c == CharAt(pattern, i)
    IN IF i >= Len(pattern) THEN depth = 0 /\ ~inClass
       ELSE IF c = BackslashChar
       THEN i + 1 < Len(pattern) /\ RegExpSyntaxOk(pattern, i + 2, depth, inClass, TRUE)
       ELSE IF inClass
       THEN RegExpSyntaxOk(pattern, i + 1, depth, c # "]", TRUE)
       ELSE IF c = "[" THEN RegExpSyntaxOk(pattern, i + 1, depth, TRUE, TRUE)
       ELSE IF c = "("
       THEN IF CharAt(pattern, i + 1) = "?"
            THEN /\ CharAt(pattern, i + 2) \in {":", "=", "!"}
                 /\ RegExpSyntaxOk(pattern, i + 3, depth + 1, FALSE, FALSE)
            ELSE RegExpSyntaxOk(pattern, i + 1, depth + 1, FALSE, FALSE)
       ELSE IF c = ")"
       THEN depth > 0 /\ RegExpSyntaxOk(pattern, i + 1, depth - 1, FALSE, TRUE)
       ELSE IF c \in {"*", "+", "?"}
       THEN /\ canRepeat
            /\ RegExpSyntaxOk(pattern,
                              IF CharAt(pattern, i + 1) = "?" THEN i + 2 ELSE i + 1,
                              depth, FALSE, FALSE)
       ELSE IF c \in {"|", "^", "$"}
       THEN RegExpSyntaxOk(pattern, i + 1, depth, FALSE, FALSE)
       ELSE RegExpSyntaxOk(pattern, i + 1, depth, FALSE, TRUE)

\* createGlobalRegExp(pattern): both `new RegExp` attempts fail on a syntax
\* error, and the second failure is rethrown as a new Error
createGlobalRegExp(pattern) ==
    IF RegExpSyntaxOk(pattern, 0, 0, FALSE, TRUE)
    THEN [threw |-> FALSE, kind |-> "regexp", source |-> pattern]
    ELSE [threw |-> TRUE, kind |-> "error", source |-> pattern]

\* parseTargetSearchQuery(rawTargetSearchQuery)
parseTargetSearchQuery(hasQuery, rawTargetSearchQuery) ==
    IF ~hasQuery \/ Len(rawTargetSearchQuery) = 0
    THEN [threw |-> FALSE, kind |-> "undefined", source |-> <<>>]
    ELSE LET delimiter == rawTargetSearchQuery[1]
             delimited == IsQueryDelimiter(delimiter)
             undelimitedQuery ==
                 IF delimited
                 THEN Slice(rawTargetSearchQuery, 1, Len(rawTargetSearchQuery) - 1)
                 ELSE rawTargetSearchQuery
             unescapedQuery ==
                 Unescape(undelimitedQuery,
                          IF delimited THEN delimitedValueEscapeSequences(delimiter)
                          ELSE plainValueEscapeSequence)
         IN IF delimiter = "/"
            THEN createGlobalRegExp(unescapedQuery)
            ELSE [threw |-> FALSE, kind |-> "string", source |-> unescapedQuery]

(***************************************************************************)
(* Source locations and ranges                                             *)
(***************************************************************************)

Loc(line, column) == [line |-> line, column |-> column]

Range(startLine, startColumn, endLine, endColumn) ==
    [start |-> Loc(startLine, startColumn), end |-> Loc(endLine, endColumn)]

\* a column is "truthy" when it is defined and not 0
Truthy(column) == column # Undef /\ column # 0

\* createRange({ codeLines, start, end })
createRange(lines, start, end) ==
    [start |-> Loc(start.line, IF Truthy(start.column) THEN start.column ELSE Undef),
     end |-> Loc(end.line,
                 IF /\ Truthy(end.column)
                    /\ end.column < StrLen(IF end.line < Len(lines)
                                           THEN lines[end.line + 1] ELSE <<>>)
                 THEN end.column ELSE Undef)]

createSingleLineRange(lineIndex) == Range(lineIndex, Undef, lineIndex, Undef)

\* compareRanges(a, b, propA, propB): the sign and size of the difference
compareRanges(a, b, propA, propB) ==
    LET la == IF propA = "start" THEN a.start ELSE a.end
        lb == IF propB = "start" THEN b.start ELSE b.end
    IN IF la.line # lb.line THEN la.line - lb.line
       ELSE IF la.column = Undef /\ lb.column = Undef THEN 0
       ELSE IF la.column = Undef THEN (IF propA = "start" THEN -1 ELSE 1)
       ELSE IF lb.column = Undef THEN (IF propB = "start" THEN 1 ELSE -1)
       ELSE la.column - lb.column

rangesAreEqual(a, b) ==
    compareRanges(a, b, "start", "start") = 0 /\ compareRanges(a, b, "end", "end") = 0

secondRangeIsInFirst(potentialOuterRange, rangeToTest) ==
    /\ compareRanges(rangeToTest, potentialOuterRange, "start", "start") >= 0
    /\ compareRanges(rangeToTest, potentialOuterRange, "end", "end") <= 0

\* cloneRange(range): a copy with the same locations
cloneRange(range) == [start |-> range.start, end |-> range.end]

\* The full-line ranges of splitRangeByLines, for lineIndex = from .. below - 1
RECURSIVE FullLineRanges(_, _)
FullLineRanges(from, below) ==
    IF from >= below THEN <<>>
    ELSE <<createSingleLineRange(from)>> \o FullLineRanges(from + 1, below)

\* splitRangeByLines(range)
splitRangeByLines(range) ==
    IF range.start.line = range.end.line THEN <<cloneRange(range)>>
    ELSE LET isPartialStartLine == Truthy(range.start.column)
             isPartialEndLine == range.end.column # Undef
         IN (IF isPartialStartLine
             THEN <<Range(range.start.line, range.start.column, range.start.line, Undef)>>
             ELSE <<>>)
            \o FullLineRanges(range.start.line + (IF isPartialStartLine THEN 1 ELSE 0),
                              range.end.line + (IF isPartialEndLine THEN 0 ELSE 1))
            \o (IF isPartialEndLine
                THEN <<Range(range.end.line, Undef, range.end.line, range.end.column)>>
                ELSE <<>>)

\* array.flatMap(splitRangeByLines)
RECURSIVE FlatMapSplitRangeByLines(_)
FlatMapSplitRangeByLines(ranges) ==
    IF Len(ranges) = 0 THEN <<>>
    ELSE splitRangeByLines(Head(ranges)) \o FlatMapSplitRangeByLines(Tail(ranges))

\* Insertion of one range into a list sorted by start, behind its equals
RECURSIVE InsertByStart(_, _)
InsertByStart(sorted, range) ==
    IF Len(sorted) = 0 THEN <<range>>
    ELSE IF compareRanges(Head(sorted), range, "start", "start") <= 0
    THEN <<Head(sorted)>> \o InsertByStart(Tail(sorted), range)
    ELSE <<range>> \o sorted

\* ranges.slice().sort((a, b) => compareRanges(a, b, 'start')): a stable sort
RECURSIVE SortByStart(_)
SortByStart(ranges) ==
    IF Len(ranges) = 0 THEN <<>>
    ELSE InsertByStart(SortByStart(SubSeq(ranges, 1, Len(ranges) - 1)), ranges[Len(ranges)])

\* The for loop of mergeIntersectingOrAdjacentRanges with a current range
RECURSIVE MergeSorted(_, _, _)
MergeSorted(sortedRanges, currentRange, mergedRanges) ==
    IF Len(sortedRanges) = 0 THEN Append(mergedRanges, currentRange)
    ELSE LET newRange == Head(sortedRanges)
         IN IF compareRanges(newRange, currentRange, "start", "end") <= 0
            THEN MergeSorted(Tail(sortedRanges),
                             IF compareRanges(newRange, currentRange, "end", "end") > 0
                             THEN [currentRange EXCEPT !.end = newRange.end]
                             ELSE currentRange,
                             mergedRanges)
            ELSE MergeSorted(Tail(sortedRanges), cloneRange(newRange),
                             Append(mergedRanges, currentRange))

\* The merge with a current range that is set before the loop, to the
\* first line, where the code starts without one
mergeIntersectingOrAdjacentRangesFromFirstLine(ranges) ==
    MergeSorted(SortByStart(ranges), createSingleLineRange(0), <<>>)

\* mergeIntersectingOrAdjacentRanges(ranges)
mergeIntersectingOrAdjacentRanges(ranges) ==
    LET sortedRanges == SortByStart(ranges)
    IN IF Len(sortedRanges) = 0 THEN <<>>
       ELSE MergeSorted(Tail(sortedRanges), cloneRange(Head(sortedRanges)), <<>>)

\* array.splice(i, 1), with i counted from 1
RemoveAt(seq, i) == SubSeq(seq, 1, i - 1) \o SubSeq(seq, i + 1, Len(seq))

\* array.splice(i, 0, item), with i counted from 1
InsertAt(seq, i, item) == SubSeq(seq, 1, i - 1) \o <<item>> \o SubSeq(seq, i, Len(seq))

\* The inner for loop of excludeRangesFromOuterRange for one exclusion,
\* walking remainingRanges backwards from index i (counted from 1)
RECURSIVE ExcludeFromRemaining(_, _, _, _)
ExcludeFromRemaining(lines, remainingRanges, exclusion, i) ==
    IF i < 1 THEN remainingRanges
    ELSE LET lineIndex == exclusion.start.line
             lineLength == StrLen(lines[lineIndex + 1])
             exclusionStartColumn ==
                 IF exclusion.start.column = Undef THEN 0 ELSE exclusion.start.column
             exclusionEndColumn ==
                 IF exclusion.end.column = Undef THEN lineLength ELSE exclusion.end.column
             range == remainingRanges[i]
             rangeStartColumn == IF range.start.column = Undef THEN 0 ELSE range.start.column
             rangeEndColumn ==
                 IF range.end.column = Undef THEN lineLength ELSE range.end.column
             rangeAfterExclusion ==
                 Range(lineIndex, IF exclusionEndColumn > 0 THEN exclusionEndColumn ELSE Undef,
                       lineIndex, IF rangeEndColumn < lineLength THEN rangeEndColumn ELSE Undef)
             updated ==
                 IF range.start.line # lineIndex THEN remainingRanges
                 ELSE IF exclusionStartColumn <= rangeStartColumn
                         /\ exclusionEndColumn >= rangeEndColumn
                 THEN RemoveAt(remainingRanges, i)
                 ELSE IF exclusionStartColumn <= rangeStartColumn
                         /\ exclusionEndColumn < rangeEndColumn
                 THEN [remainingRanges EXCEPT ![i].start.column = exclusionEndColumn]
                 ELSE IF exclusionStartColumn > rangeStartColumn
                         /\ exclusionEndColumn >= rangeEndColumn
                 THEN [remainingRanges EXCEPT ![i].end.column = exclusionStartColumn]
                 ELSE InsertAt([remainingRanges EXCEPT ![i].end.column = exclusionStartColumn],
                               i + 1, rangeAfterExclusion)
         IN ExcludeFromRemaining(lines, updated, exclusion, i - 1)

\* exclusionsSplitByLine.forEach(...)
RECURSIVE ExcludeAll(_, _, _)
ExcludeAll(lines, remainingRanges, exclusionsSplitByLine) ==
    IF Len(exclusionsSplitByLine) = 0 THEN remainingRanges
    ELSE ExcludeAll(lines,
                    ExcludeFromRemaining(lines, remainingRanges, Head(exclusionsSplitByLine),
                                         Len(remainingRanges)),
                    Tail(exclusionsSplitByLine))

\* excludeRangesFromOuterRange({ codeLines, outerRange, rangesToExclude })
excludeRangesFromOuterRange(lines, outerRange, rangesToExclude) ==
    ExcludeAll(lines, splitRangeByLines(outerRange),
               FlatMapSplitRangeByLines(rangesToExclude))

(***************************************************************************)
(* Text content helpers                                                    *)
(***************************************************************************)

\* Length of the match of the JSDoc continuationLineStart /^\s*\*(?=\s|$)/
\* at the beginning of s, or 0 when it does not match
continuationLineStartLength(s) ==
    LET first == SearchNonWhitespace(s)
    IN IF /\ first > -1
          /\ s[first + 1] = "*"
          /\ (first + 1 = Len(s) \/ IsWhitespace(s[first + 2]))
       THEN first + 1
       ELSE 0

\* getTextContentInLine({ codeLines, lineIndex, startColumn, endColumn,
\* continuationLineStart }); endColumn = Undef reads to the end of the line
getTextContentInLine(lines, lineIndex, startColumn, endColumn, continuation) ==
    LET line == lines[lineIndex + 1]
    IN With(Slice(line, startColumn,
                  IF endColumn = Undef THEN Len(line) ELSE endColumn),
            LAMBDA outerContent :
       With(IF startColumn = 0 /\ continuation
            THEN continuationLineStartLength(outerContent) ELSE 0,
            LAMBDA innerContentIndex :
       With(SliceFrom(outerContent, innerContentIndex),
            LAMBDA innerContent :
       With(SearchNonWhitespace(innerContent),
            LAMBDA firstNonWhitespaceIndex :
       With(IF firstNonWhitespaceIndex > -1
            THEN TrimEnd(SliceFrom(innerContent, firstNonWhitespaceIndex))
            ELSE <<>>,
            LAMBDA content :
       LET contentStartIndex ==
               startColumn + innerContentIndex
               + (IF firstNonWhitespaceIndex > -1 THEN firstNonWhitespaceIndex ELSE 0)
       IN [content |-> content,
           contentRange |->
               Range(lineIndex,
                     IF contentStartIndex > 0 THEN contentStartIndex ELSE Undef,
                     lineIndex,
                     IF contentStartIndex + Len(content) < Len(line)
                     THEN contentStartIndex + Len(content) ELSE Undef)])))))

\* excludeWhitespaceRanges(codeLines, ranges)
excludeWhitespaceRanges(lines, ranges) ==
    SelectSeq(ranges,
              LAMBDA r :
                  LET line == lines[r.start.line + 1]
                  IN ~IsBlank(Slice(line,
                                    IF r.start.column = Undef THEN 0 ELSE r.start.column,
                                    IF r.end.column = Undef THEN Len(line) ELSE r.end.column)))

(***************************************************************************)
(* Parent comment locator: single-line comments                            *)
(***************************************************************************)

singleLineCommentSyntaxes == << <<"/", "/">>, <<"#">>, <<"-", "-">> >>

\* the first of the supported syntaxes found at column p, or <<>>
SingleLineSyntaxAt(line, p) ==
    IF StartsWithAt(line, singleLineCommentSyntaxes[1], p) THEN singleLineCommentSyntaxes[1]
    ELSE IF StartsWithAt(line, singleLineCommentSyntaxes[2], p) THEN singleLineCommentSyntaxes[2]
    ELSE IF StartsWithAt(line, singleLineCommentSyntaxes[3], p) THEN singleLineCommentSyntaxes[3]
    ELSE <<>>

\* end of the maximal run of whitespace starting at p
RECURSIVE WhitespaceRunEnd(_, _)
WhitespaceRunEnd(line, p) ==
    IF IsWhitespace(CharAt(line, p)) THEN WhitespaceRunEnd(line, p + 1) ELSE p

\* One attempt of singleLineCommentRegex, (^|\s+)(//|#|--)(\s+), at column i
MatchSingleLineSyntaxAt(line, i) ==
    With(IF i = 0 THEN SingleLineSyntaxAt(line, 0) ELSE <<>>, LAMBDA atLineStart :
    With(WhitespaceRunEnd(line, i), LAMBDA afterSpace :
    With(IF afterSpace > i THEN SingleLineSyntaxAt(line, afterSpace) ELSE <<>>,
         LAMBDA spaced :
    LET viaLineStart == /\ Len(atLineStart) > 0
                        /\ WhitespaceRunEnd(line, Len(atLineStart)) > Len(atLineStart)
    IN IF viaLineStart
       THEN [ok |-> TRUE, startColumn |-> 0,
             endColumn |-> WhitespaceRunEnd(line, Len(atLineStart)),
             syntax |-> atLineStart]
       ELSE IF Len(spaced) > 0
               /\ WhitespaceRunEnd(line, afterSpace + Len(spaced)) > afterSpace + Len(spaced)
       THEN [ok |-> TRUE, startColumn |-> i,
             endColumn |-> WhitespaceRunEnd(line, afterSpace + Len(spaced)),
             syntax |-> spaced]
       ELSE NoMatch)))

\* tagLine.matchAll(singleLineCommentRegex)
RECURSIVE MatchAllSingleLineSyntaxesFrom(_, _)
MatchAllSingleLineSyntaxesFrom(line, i) ==
    IF i >= Len(line) THEN <<>>
    ELSE With(MatchSingleLineSyntaxAt(line, i), LAMBDA m :
            IF m.ok
            THEN <<m>> \o MatchAllSingleLineSyntaxesFrom(line, m.endColumn)
            ELSE MatchAllSingleLineSyntaxesFrom(line, i + 1))

\* array.find(predicate): the first element satisfying it, or NoMatch
FindFirst(seq, Pred(_)) ==
    LET hits == SelectSeq(seq, Pred)
    IN IF Len(hits) > 0 THEN hits[1] ELSE NoMatch

IgnoreTagsName == <<"i", "g", "n", "o", "r", "e", "-", "t", "a", "g", "s">>

SeparatorContent == <<"-", "-", "-">>

\* The expansion loop of a single-line comment over the following lines,
\* starting at lineIndex with the contents collected so far in acc
RECURSIVE ExpandSingleLineComment(_, _, _, _)
ExpandSingleLineComment(lines, syntax, lineIndex, acc) ==
    IF lineIndex >= Len(lines) THEN acc
    ELSE LET line == lines[lineIndex + 1]
             commentStart == SearchNonWhitespace(line)
             possibleContentStart == commentStart + Len(syntax) + 1
             expectedCommentSyntaxPart == Slice(line, commentStart, possibleContentStart)
             column == Min(possibleContentStart, Len(line))
         IN With(getTextContentInLine(lines, lineIndex, possibleContentStart, Undef, FALSE),
                 LAMBDA lineContent :
            IF commentStart = -1 \/ TrimEnd(expectedCommentSyntaxPart) # syntax
            THEN acc
            ELSE IF Len(lineContent.content) > 0
            THEN IF lineContent.content = SeparatorContent
                 THEN [acc EXCEPT !.end = Loc(lineIndex, Undef)]
                 ELSE IF StartsWithAt(lineContent.content, <<"[", "!">>, 0)
                 THEN acc
                 ELSE ExpandSingleLineComment(lines, syntax, lineIndex + 1,
                          [contents |-> Append(acc.contents, lineContent.content),
                           contentRanges |-> Append(acc.contentRanges, lineContent.contentRange),
                           end |-> Loc(lineIndex, Undef)])
            ELSE ExpandSingleLineComment(lines, syntax, lineIndex + 1,
                     [contents |-> Append(acc.contents, <<>>),
                      contentRanges |->
                          Append(acc.contentRanges,
                                 createRange(lines, Loc(lineIndex, column),
                                             Loc(lineIndex, Undef))),
                      end |-> Loc(lineIndex, Undef)]))

NoComment == [found |-> FALSE]

\* The inner range of a single-line comment: the text after the opening
\* syntax, up to the end of the comment
SingleLineCommentInnerRange(lines, tag, commentEnd) ==
    createRange(lines, tag.range.start, commentEnd)

ChainedCommentEndAfterSyntax(chainedSingleLineCommentSyntax) ==
    chainedSingleLineCommentSyntax.endColumn

\* The end column of a comment that is followed by a chained comment:
\* commentRange.end.column = chainedSingleLineCommentSyntax.startColumn
ChainedCommentEnd(chainedSingleLineCommentSyntax) ==
    chainedSingleLineCommentSyntax.startColumn

\* The start column one character behind the start of the syntax match
CommentStartColumnBehindSpace(singleLineCommentSyntax) ==
    singleLineCommentSyntax.startColumn + 1

\* The start column of a comment that has code before it:
\* commentRange.start.column = singleLineCommentSyntax.startColumn
CommentStartColumn(singleLineCommentSyntax) ==
    singleLineCommentSyntax.startColumn

\* allowMultiLineExpansion without the test for a chained comment
AllowsMultiLineExpansionWhenChained(hasCodeBefore, chained, name) ==
    ~hasCodeBefore /\ name # IgnoreTagsName

\* allowMultiLineExpansion: the comment starts on its own line, is not
\* chained and is not an ignore-tags directive
AllowsMultiLineExpansion(hasCodeBefore, chained, name) ==
    ~hasCodeBefore /\ ~chained /\ name # IgnoreTagsName

\* parseSingleLineParentComment({ codeLines, tag })
parseSingleLineParentComment(lines, tag) ==
    LET tagLineIndex == tag.range.start.line
        tagLine == lines[tagLineIndex + 1]
        tagEndColumn == tag.range.end.column
    IN With(MatchAllSingleLineSyntaxesFrom(tagLine, 0),
            LAMBDA singleLineCommentSyntaxMatches :
       With(FindFirst(singleLineCommentSyntaxMatches,
                      LAMBDA m : m.endColumn = tag.range.start.column),
            LAMBDA singleLineCommentSyntax :
       IF ~singleLineCommentSyntax.ok THEN NoComment
       ELSE
       With(FindFirst(singleLineCommentSyntaxMatches,
                      LAMBDA m : /\ m.startColumn >= tagEndColumn
                                 /\ m.syntax = singleLineCommentSyntax.syntax
                                 /\ StartsWithAt(tagLine, <<"[", "!">>, m.endColumn)),
            LAMBDA chainedSingleLineCommentSyntax :
       LET hasCodeBefore ==
               ~IsBlank(Slice(tagLine, 0, singleLineCommentSyntax.startColumn))
           startColumn ==
               IF hasCodeBefore THEN CommentStartColumn(singleLineCommentSyntax) ELSE Undef
           chained == chainedSingleLineCommentSyntax.ok
           endColumn ==
               IF chained THEN ChainedCommentEnd(chainedSingleLineCommentSyntax) ELSE Undef
           allowMultiLineExpansion ==
               AllowsMultiLineExpansion(hasCodeBefore, chained, tag.name)
       IN With(getTextContentInLine(lines, tagLineIndex, tagEndColumn, endColumn, FALSE),
               LAMBDA tagLineContent :
          With(IF Len(tagLineContent.content) > 0
               THEN [contents |-> <<tagLineContent.content>>,
                     contentRanges |-> <<tagLineContent.contentRange>>,
                     end |-> Loc(tagLineIndex, endColumn)]
               ELSE [contents |-> <<>>, contentRanges |-> <<>>,
                     end |-> Loc(tagLineIndex, endColumn)],
               LAMBDA first :
          With(IF allowMultiLineExpansion
               THEN ExpandSingleLineComment(lines, singleLineCommentSyntax.syntax,
                                            tagLineIndex + 1, first)
               ELSE first,
               LAMBDA all :
          LET commentRange == [start |-> Loc(tagLineIndex, startColumn), end |-> all.end]
          IN [found |-> TRUE,
              tag |-> tag,
              contents |-> all.contents,
              commentRange |-> commentRange,
              commentInnerRange |-> SingleLineCommentInnerRange(lines, tag, all.end),
              annotationRange |-> createRange(lines, commentRange.start, commentRange.end),
              contentRanges |-> all.contentRanges,
              targetRanges |-> <<>>]))))))

(***************************************************************************)
(* Parent comment locator: multi-line comments                             *)
(***************************************************************************)

\* multiLineCommentSyntaxes, in the order of the source
multiLineCommentSyntaxes ==
    << [opening |-> <<"/", "*", "*">>, closing |-> <<"*", "/">>, continuationLineStart |-> TRUE],
       [opening |-> <<"/", "*">>, closing |-> <<"*", "/">>, continuationLineStart |-> FALSE],
       [opening |-> <<"<", "!", "-", "-">>, closing |-> <<"-", "-", ">">>, continuationLineStart |-> FALSE],
       [opening |-> <<"{", "/", "*">>, closing |-> <<"*", "/", "}">>, continuationLineStart |-> FALSE],
       [opening |-> <<"{", " ", "/", "*">>, closing |-> <<"*", "/", " ", "}">>, continuationLineStart |-> FALSE],
       [opening |-> <<"(", "*">>, closing |-> <<"*", ")">>, continuationLineStart |-> FALSE],
       [opening |-> <<"-", "-", "[", "[">>, closing |-> <<"]", "]">>, continuationLineStart |-> FALSE] >>

\* The alternatives of createCommentDelimiterRegExp(syntaxes, 'opening'):
\* unique, sorted by the length of the escaped text, longest first
multiLineCommentOpenings ==
    << <<"{", " ", "/", "*">>, <<"-", "-", "[", "[">>, <<"/", "*", "*">>, <<"{", "/", "*">>,
       <<"<", "!", "-", "-">>, <<"(", "*">>, <<"/", "*">> >>

\* The alternatives of createCommentDelimiterRegExp(syntaxes, 'closing')
multiLineCommentClosings ==
    << <<"*", "/", " ", "}">>, <<"*", "/", "}">>, <<"*", ")">>, <<"]", "]">>,
       <<"*", "/">>, <<"-", "-", ">">> >>

\* start of the maximal run of whitespace that ends right before column p
RECURSIVE WhitespaceRunStart(_, _)
WhitespaceRunStart(line, p) ==
    IF p > 0 /\ IsWhitespace(CharAt(line, p - 1)) THEN WhitespaceRunStart(line, p - 1) ELSE p

\* One attempt of the delimiter regex at column i:
\* (?<=^|(\s+))(alternatives)(?=$|(\s+))
RECURSIVE MatchDelimiterAt(_, _, _, _)
MatchDelimiterAt(alternatives, line, i, k) ==
    IF k > Len(alternatives) THEN NoMatch
    ELSE LET delimiter == alternatives[k]
             after == i + Len(delimiter)
             lookbehind == i = 0 \/ IsWhitespace(CharAt(line, i - 1))
             lookahead == after = Len(line) \/ IsWhitespace(CharAt(line, after))
         IN IF lookbehind /\ StartsWithAt(line, delimiter, i) /\ lookahead
            THEN [ok |-> TRUE, index |-> i, delimiter |-> delimiter,
                  leadingWhitespace |-> i - WhitespaceRunStart(line, i),
                  trailingWhitespace |-> WhitespaceRunEnd(line, after) - after]
            ELSE MatchDelimiterAt(alternatives, line, i, k + 1)

\* The first match of the delimiter regex at or after column i (regExp.exec)
RECURSIVE ExecDelimiter(_, _, _)
ExecDelimiter(alternatives, line, i) ==
    IF i > Len(line) THEN NoMatch
    ELSE OrElse(MatchDelimiterAt(alternatives, line, i, 1),
                ExecDelimiter(alternatives, line, i + 1))

\* findAllCommentDelimiters(regExp, line, startColumn, endColumn), with
\* lastIndex = from; endColumn limits the search only when it is truthy
RECURSIVE findAllCommentDelimiters(_, _, _, _)
findAllCommentDelimiters(alternatives, line, from, endColumn) ==
    With(ExecDelimiter(alternatives, line, from), LAMBDA m :
       IF ~m.ok THEN <<>>
       ELSE IF Truthy(endColumn) /\ m.index + Len(m.delimiter) > endColumn THEN <<>>
       ELSE <<m>> \o findAllCommentDelimiters(alternatives, line, m.index + 1, endColumn))

\* array.reverse()
RECURSIVE Reverse(_)
Reverse(seq) ==
    IF Len(seq) = 0 THEN seq ELSE Append(Reverse(Tail(seq)), Head(seq))

\* The range made of one line's columns: a column is only set if it does not
\* match the beginning or the end of the line
createLineRange(line, lineIndex, startColumn, endColumn) ==
    Range(lineIndex, IF startColumn > 0 THEN startColumn ELSE Undef,
          lineIndex, IF endColumn < Len(line) THEN endColumn ELSE Undef)

\* the initial entry of commentSyntaxMatches
EmptySyntaxMatch ==
    [hasOpening |-> FALSE, openingRange |-> createSingleLineRange(0),
     openingRangeWithWhitespace |-> createSingleLineRange(0),
     hasClosing |-> FALSE, closingRange |-> createSingleLineRange(0),
     closingRangeWithWhitespace |-> createSingleLineRange(0),
     invalid |-> FALSE]

\* The inner commentSyntaxMatches.forEach for one found delimiter sequence
ApplyDelimiter(matches, sequence, type, line, lineIndex) ==
    LET delimiterRange ==
            createLineRange(line, lineIndex, sequence.index,
                            sequence.index + Len(sequence.delimiter))
        whitespaceRange ==
            createLineRange(line, lineIndex, sequence.index - sequence.leadingWhitespace,
                            sequence.index + Len(sequence.delimiter)
                            + sequence.trailingWhitespace)
    IN [k \in 1..Len(matches) |->
           LET match == matches[k]
               syntax == multiLineCommentSyntaxes[k]
           IN IF type = "opening"
              THEN IF match.invalid \/ match.hasOpening \/ syntax.opening # sequence.delimiter
                   THEN match
                   ELSE [match EXCEPT !.hasOpening = TRUE, !.openingRange = delimiterRange,
                                      !.openingRangeWithWhitespace = whitespaceRange]
              ELSE IF match.invalid \/ match.hasClosing \/ syntax.closing # sequence.delimiter
                   THEN match
                   ELSE [match EXCEPT !.hasClosing = TRUE, !.closingRange = delimiterRange,
                                      !.closingRangeWithWhitespace = whitespaceRange]]

RECURSIVE ApplyDelimiters(_, _, _, _, _)
ApplyDelimiters(matches, sequences, type, line, lineIndex) ==
    IF Len(sequences) = 0 THEN matches
    ELSE ApplyDelimiters(ApplyDelimiter(matches, Head(sequences), type, line, lineIndex),
                         Tail(sequences), type, line, lineIndex)

\* contentBeforeTag.replace(syntax.continuationLineStart, '')
StripContinuationLineStart(s) == SliceFrom(s, continuationLineStartLength(s))

\* The validation pass of findCommentSyntaxMatches for one syntax
ValidateSyntaxMatch(match, syntax, type, line, lineIndex, endColumn) ==
    LET onOpeningLine == match.hasOpening /\ lineIndex = match.openingRange.start.line
        onClosingLine == match.hasClosing /\ lineIndex = match.closingRange.start.line
        continuationMissing ==
            /\ syntax.continuationLineStart
            /\ ~onOpeningLine
            /\ ~onClosingLine
            /\ continuationLineStartLength(line) = 0
        openingEndColumn ==
            IF match.hasOpening /\ match.openingRangeWithWhitespace.end.line = lineIndex
            THEN match.openingRangeWithWhitespace.end.column ELSE Undef
        rawContentBeforeTag ==
            Slice(line, IF openingEndColumn = Undef THEN 0 ELSE openingEndColumn, endColumn)
        contentBeforeTag ==
            IF ~Truthy(openingEndColumn) /\ syntax.continuationLineStart
            THEN StripContinuationLineStart(rawContentBeforeTag)
            ELSE rawContentBeforeTag
        contentBeforeTagOnTagLine ==
            type = "opening" /\ endColumn # Undef /\ ~IsBlank(contentBeforeTag)
    IN IF match.invalid THEN match
       ELSE IF continuationMissing \/ contentBeforeTagOnTagLine
       THEN [match EXCEPT !.invalid = TRUE]
       ELSE match

\* findCommentSyntaxMatches({ type, commentSyntaxMatches, codeLines, lineIndex,
\* startColumn, endColumn })
findCommentSyntaxMatches(type, matches, lines, lineIndex, startColumn, endColumn) ==
    LET line == lines[lineIndex + 1]
    IN With(findAllCommentDelimiters(
                IF type = "opening" THEN multiLineCommentOpenings
                ELSE multiLineCommentClosings,
                line, IF startColumn = Undef THEN 0 ELSE startColumn, endColumn),
            LAMBDA found :
       With(IF type = "opening" THEN Reverse(found) ELSE found,
            LAMBDA sequences :
       With(ApplyDelimiters(matches, sequences, type, line, lineIndex),
            LAMBDA updated :
       [foundNewMatches |-> updated # matches,
        matches |-> [k \in 1..Len(updated) |->
                        ValidateSyntaxMatch(updated[k], multiLineCommentSyntaxes[k],
                                            type, line, lineIndex, endColumn)]])))

\* The three-argument compareRanges used by the multi-line locator:
\* > 0 if the location of b comes after the one of a
compareRangesSecondMinusFirst(a, b, prop) ==
    LET la == IF prop = "start" THEN a.start ELSE a.end
        lb == IF prop = "start" THEN b.start ELSE b.end
    IN IF lb.line # la.line THEN lb.line - la.line
       ELSE IF la.column = Undef /\ lb.column = Undef THEN 0
       ELSE IF la.column = Undef THEN (IF prop = "start" THEN 1 ELSE -1)
       ELSE IF lb.column = Undef THEN (IF prop = "start" THEN -1 ELSE 1)
       ELSE lb.column - la.column

\* isValidFullMatch(match) without the rule for comments of several lines
isValidFullMatchOnOneLine(match) ==
    LET startsAndEndsOnSameLine == match.openingRange.start.line = match.closingRange.end.line
        hasCodeBeforeStart == match.openingRangeWithWhitespace.start.column # Undef
        hasCodeAfterEnd == match.closingRangeWithWhitespace.end.column # Undef
    IN /\ ~match.invalid
       /\ match.hasOpening
       /\ match.hasClosing
       /\ ~(startsAndEndsOnSameLine /\ hasCodeBeforeStart /\ hasCodeAfterEnd)

\* isValidFullMatch(match)
isValidFullMatch(match) ==
    LET startsAndEndsOnSameLine == match.openingRange.start.line = match.closingRange.end.line
        hasCodeBeforeStart == match.openingRangeWithWhitespace.start.column # Undef
        hasCodeAfterEnd == match.closingRangeWithWhitespace.end.column # Undef
    IN /\ ~match.invalid
       /\ match.hasOpening
       /\ match.hasClosing
       /\ ~(startsAndEndsOnSameLine /\ hasCodeBeforeStart /\ hasCodeAfterEnd)
       /\ ~(~startsAndEndsOnSameLine /\ (hasCodeBeforeStart \/ hasCodeAfterEnd))

\* The comparison of the reduce by the opening sequences alone
IsBetterPairByOpening(previousBestMatch, match) ==
    compareRangesSecondMinusFirst(previousBestMatch.openingRange, match.openingRange, "end") > 0

\* The new match is a better pair than the previous one: its opening
\* sequence ends after the previous one, or its closing sequence starts
\* before the previous one
IsBetterPair(previousBestMatch, match) ==
    \/ compareRangesSecondMinusFirst(previousBestMatch.openingRange, match.openingRange, "end") > 0
    \/ compareRangesSecondMinusFirst(previousBestMatch.closingRange, match.closingRange,
                                     "start") < 0

\* The reduce that picks the index of the best pair, or 0 for none
RECURSIVE BestMatchIndex(_, _, _)
BestMatchIndex(matches, k, previousBestIndex) ==
    IF k > Len(matches) THEN previousBestIndex
    ELSE LET match == matches[k]
             better ==
                 \/ previousBestIndex = 0
                 \/ IsBetterPair(matches[previousBestIndex], match)
         IN IF isValidFullMatch(match) /\ better
            THEN BestMatchIndex(matches, k + 1, k)
            ELSE BestMatchIndex(matches, k + 1, previousBestIndex)


\* The ranges of a comment found by the multi-line locator: commentRange is
\* the whole comment, annotationRange the part that belongs to the tag, and
\* commentInnerRange the range between the opening and the closing syntax
MultiLineCommentRanges(outerRange, rangeOfAnnotation, innerRange) ==
    [commentRange |-> outerRange, annotationRange |-> rangeOfAnnotation,
     commentInnerRange |-> innerRange]

\* contents.shift() / contentRanges.shift() while the first content is empty
RECURSIVE DropLeadingEmpty(_)
DropLeadingEmpty(acc) ==
    IF Len(acc.contents) > 0 /\ Len(Head(acc.contents)) = 0
    THEN DropLeadingEmpty([acc EXCEPT !.contents = Tail(acc.contents),
                                      !.contentRanges = Tail(acc.contentRanges)])
    ELSE acc

\* contents.pop() / contentRanges.pop() while the last content is empty
RECURSIVE DropTrailingEmpty(_)
DropTrailingEmpty(acc) ==
    IF Len(acc.contents) > 0 /\ Len(acc.contents[Len(acc.contents)]) = 0
    THEN DropTrailingEmpty(
             [acc EXCEPT !.contents = SubSeq(acc.contents, 1, Len(acc.contents) - 1),
                         !.contentRanges = SubSeq(acc.contentRanges, 1,
                                                  Len(acc.contentRanges) - 1)])
    ELSE acc

\* The loop over the lines of the inner range in getCommentFromMatchingSyntaxPair;
\* acc.range is the loop's commentRange
RECURSIVE ScanInnerLines(_, _, _, _, _, _)
ScanInnerLines(lines, tag, syntax, innerRange, lineIndex, acc) ==
    IF lineIndex > innerRange.end.line THEN acc
    ELSE LET tagLine == tag.range.end.line
             startColumn ==
                 IF lineIndex = tagLine THEN tag.range.end.column
                 ELSE IF lineIndex = innerRange.start.line THEN innerRange.start.column
                 ELSE Undef
             endColumn ==
                 IF lineIndex = innerRange.end.line THEN innerRange.end.column ELSE Undef
         IN With(getTextContentInLine(lines, lineIndex,
                                      IF startColumn = Undef THEN 0 ELSE startColumn,
                                      endColumn, syntax.continuationLineStart),
                 LAMBDA lineContent :
            IF lineIndex < tagLine
            THEN ScanInnerLines(lines, tag, syntax, innerRange, lineIndex + 1,
                     IF Len(lineContent.content) > 0
                     THEN [acc EXCEPT !.range = [start |-> Loc(tag.range.start.line, Undef),
                                                 end |-> innerRange.end]]
                     ELSE acc)
            ELSE IF lineContent.content = <<"-", "-", "-">>
            THEN [acc EXCEPT !.range = Range(tag.range.start.line, Undef, lineIndex, Undef)]
            ELSE IF StartsWithAt(lineContent.content, <<"[", "!">>, 0)
            THEN [acc EXCEPT !.range = Range(tag.range.start.line, Undef,
                                             lineIndex - 1, Undef)]
            ELSE ScanInnerLines(lines, tag, syntax, innerRange, lineIndex + 1,
                     [acc EXCEPT !.contents = Append(@, lineContent.content),
                                 !.contentRanges = Append(@, lineContent.contentRange)]))

\* getCommentFromMatchingSyntaxPair({ codeLines, tag, commentSyntaxMatches })
getCommentFromMatchingSyntaxPair(lines, tag, matches) ==
    With(BestMatchIndex(matches, 1, 0), LAMBDA bestMatchIndex :
    IF bestMatchIndex = 0 THEN NoComment
    ELSE
    LET match == matches[bestMatchIndex]
        syntax == multiLineCommentSyntaxes[bestMatchIndex]
        isOnSingleLine == match.openingRange.start.line = match.closingRange.end.line
        isOnSingleLineBeforeCode ==
            isOnSingleLine /\ Truthy(match.closingRangeWithWhitespace.end.column)
        outerRange ==
            [start |-> IF isOnSingleLineBeforeCode THEN match.openingRange.start
                       ELSE match.openingRangeWithWhitespace.start,
             end |-> match.closingRangeWithWhitespace.end]
        innerStart == match.openingRangeWithWhitespace.end
        innerEnd == match.closingRangeWithWhitespace.start
        innerRange ==
            [start |-> IF ~Truthy(innerStart.column) /\ ~isOnSingleLine
                       THEN Loc(innerStart.line + 1, Undef) ELSE innerStart,
             end |-> IF ~Truthy(innerEnd.column) /\ ~isOnSingleLine
                     THEN Loc(innerEnd.line - 1, Undef) ELSE innerEnd]
    IN With(ScanInnerLines(lines, tag, syntax, innerRange, innerRange.start.line,
                           [range |-> outerRange, contents |-> <<>>,
                            contentRanges |-> <<>>]),
            LAMBDA scanned :
       With(DropTrailingEmpty(DropLeadingEmpty(scanned)),
            LAMBDA trimmed :
       With(MultiLineCommentRanges(outerRange, scanned.range, innerRange),
            LAMBDA ranges :
       [found |-> TRUE, tag |-> tag, contents |-> trimmed.contents,
        commentRange |-> ranges.commentRange,
        commentInnerRange |-> ranges.commentInnerRange,
        annotationRange |-> ranges.annotationRange,
        contentRanges |-> trimmed.contentRanges, targetRanges |-> <<>>]))))

\* The forward loop of parseMultiLineParentComment over the closing lines
RECURSIVE ScanForClosings(_, _, _, _, _)
ScanForClosings(lines, tag, matches, closingLineIndex, foundAnyClosings) ==
    IF closingLineIndex >= Len(lines)
    THEN [comment |-> NoComment, matches |-> matches,
          foundAnyClosings |-> foundAnyClosings]
    ELSE With(findCommentSyntaxMatches("closing", matches, lines, closingLineIndex,
                  IF closingLineIndex = tag.range.start.line
                  THEN tag.range.end.column ELSE Undef,
                  Undef),
              LAMBDA result :
         With(IF result.foundNewMatches
              THEN getCommentFromMatchingSyntaxPair(lines, tag, result.matches)
              ELSE NoComment,
              LAMBDA comment :
            IF result.foundNewMatches /\ comment.found
            THEN [comment |-> comment, matches |-> result.matches,
                  foundAnyClosings |-> TRUE]
            ELSE ScanForClosings(lines, tag, result.matches, closingLineIndex + 1,
                                 foundAnyClosings \/ result.foundNewMatches)))

\* The backward loop of parseMultiLineParentComment over the opening lines
RECURSIVE ScanForOpenings(_, _, _, _, _)
ScanForOpenings(lines, tag, matches, openingLineIndex, scannedForClosings) ==
    IF openingLineIndex < 0 THEN NoComment
    ELSE With(findCommentSyntaxMatches("opening", matches, lines, openingLineIndex,
                  Undef,
                  IF openingLineIndex = tag.range.start.line
                  THEN tag.range.start.column ELSE Undef),
              LAMBDA result :
         IF ~result.foundNewMatches
         THEN ScanForOpenings(lines, tag, result.matches, openingLineIndex - 1,
                              scannedForClosings)
         ELSE
         With(getCommentFromMatchingSyntaxPair(lines, tag, result.matches),
              LAMBDA comment :
            IF comment.found THEN comment
            ELSE IF scannedForClosings
            THEN ScanForOpenings(lines, tag, result.matches, openingLineIndex - 1, TRUE)
            ELSE
            With(ScanForClosings(lines, tag, result.matches, tag.range.start.line, FALSE),
                 LAMBDA closings :
               IF closings.comment.found THEN closings.comment
               ELSE IF ~closings.foundAnyClosings THEN NoComment
               ELSE ScanForOpenings(lines, tag, closings.matches,
                                    openingLineIndex - 1, TRUE))))

\* parseMultiLineParentComment({ codeLines, tag })
parseMultiLineParentComment(lines, tag) ==
    ScanForOpenings(lines, tag,
                    [k \in 1..Len(multiLineCommentSyntaxes) |-> EmptySyntaxMatch],
                    tag.range.start.line, FALSE)

(***************************************************************************)
(* Parent comment locator                                                  *)
(***************************************************************************)

\* parseParentComment({ codeLines, tag })
parseParentComment(lines, tag) ==
    With(parseSingleLineParentComment(lines, tag), LAMBDA singleLine :
        IF singleLine.found THEN singleLine ELSE parseMultiLineParentComment(lines, tag))

(***************************************************************************)
(* State                                                                   *)
(***************************************************************************)

VARIABLES
    codeLines,                  \* the caller's line array
    pc,                         \* "scan", "tags", "parsed", "targeted", "thrown", ...
    scanLineIndex,              \* lineIndex of the scanner's forEach
    annotationTags,             \* the scanner's result array
    thrownError,                \* the Error that left the parser, or NoError
    tagIndex,                   \* index of the orchestrator's forEach
    annotationComments,         \* the orchestrator's result array
    ignoreCountPerTagName,      \* Map<string, number>
    tagsIgnoredUntilLineIndex,  \* the line cutoff
    previousContentRanges,      \* contentRanges of the last added comment
    tagLog,                     \* per processed tag: the path it took
    cleanOptions,               \* the options of cleanCode besides the code
    originalCodeLines,          \* the line array as it was passed in
    rangesToBeRemoved,          \* cleanCode's list of planned removals
    changes,                    \* cleanCode's list of per-line edits
    changeIndex,                \* index of the changes.forEach
    targetLog,                  \* per comment: the relative target range in effect
    lineSearch                  \* locals of a call of findSearchQueryMatchesInLine

parserVars == <<scanLineIndex, annotationTags, thrownError, tagIndex,
                ignoreCountPerTagName, tagsIgnoredUntilLineIndex,
                previousContentRanges, tagLog>>

cleanerVars == <<rangesToBeRemoved, changes, changeIndex>>

resolverVars == <<targetLog, lineSearch>>

vars == <<codeLines, pc, annotationComments, cleanOptions, originalCodeLines,
          parserVars, cleanerVars, resolverVars>>

NoError == [thrown |-> FALSE]

\* The parser returns the comment list only: no diagnostic is created anywhere
errorMessages == <<>>

(***************************************************************************)
(* Tag scanner: parseAnnotationTags                                        *)
(***************************************************************************)

\* The AnnotationTag pushed for one regex match on line lineIndex
TagOfMatch(m, lineIndex, query) ==
    [name |-> m.name,
     targetSearchQuery |-> [kind |-> query.kind, source |-> query.source],
     hasRelativeTargetRange |-> m.hasRange,
     relativeTargetRange |-> m.range,
     range |-> Range(lineIndex, m.index, lineIndex, m.end)]

\* matches.forEach(...) on one line: the tags pushed, up to the first match
\* whose search query makes createGlobalRegExp throw
RECURSIVE TagsOfMatches(_, _, _)
TagsOfMatches(matches, lineIndex, k) ==
    IF k > Len(matches) THEN [tags |-> <<>>, error |-> NoError]
    ELSE LET m == matches[k]
         IN With(parseTargetSearchQuery(m.hasQuery, m.rawTargetSearchQuery),
                 LAMBDA query :
            IF query.threw
            THEN [tags |-> <<>>,
                  error |-> [thrown |-> TRUE, lineIndex |-> lineIndex,
                             pattern |-> query.source]]
            ELSE With(TagsOfMatches(matches, lineIndex, k + 1), LAMBDA rest :
                     [tags |-> <<TagOfMatch(m, lineIndex, query)>> \o rest.tags,
                      error |-> rest.error]))

\* One iteration of codeLines.forEach in parseAnnotationTags
ScanLine ==
    /\ pc = "scan"
    /\ scanLineIndex < Len(codeLines)
    /\ \E result \in {TagsOfMatches(MatchAllTags(codeLines[scanLineIndex + 1]),
                                     scanLineIndex, 1)} :
          /\ annotationTags' = annotationTags \o result.tags
          /\ thrownError' = result.error
          /\ pc' = IF result.error.thrown THEN "thrown"
                   ELSE IF scanLineIndex + 1 < Len(codeLines) THEN "scan"
                   ELSE IF Len(annotationTags \o result.tags) = 0 THEN "parsed"
                   ELSE "tags"
    /\ scanLineIndex' = scanLineIndex + 1
    /\ UNCHANGED <<codeLines, tagIndex, annotationComments, ignoreCountPerTagName,
                   tagsIgnoredUntilLineIndex, previousContentRanges, tagLog,
                   cleanOptions, originalCodeLines, cleanerVars, resolverVars>>

(***************************************************************************)
(* Orchestrator: parseAnnotationComments                                   *)
(***************************************************************************)

\* s.trim()
RECURSIVE TrimStart(_)
TrimStart(s) ==
    IF Len(s) > 0 /\ IsWhitespace(s[1]) THEN TrimStart(SubSeq(s, 2, Len(s))) ELSE s

Trim(s) == TrimEnd(TrimStart(s))

\* s.split(','): the parts between commas, as a sequence
RECURSIVE SplitAtCommas(_, _)
SplitAtCommas(s, current) ==
    IF Len(s) = 0 THEN <<current>>
    ELSE IF s[1] = ","
    THEN <<current>> \o SplitAtCommas(SubSeq(s, 2, Len(s)), <<>>)
    ELSE SplitAtCommas(SubSeq(s, 2, Len(s)), Append(current, s[1]))

\* targetSearchQuery.split(',').map((name) => name.trim()), as a set
TargetTagNames(query) ==
    LET parts == SplitAtCommas(query, <<>>)
    IN {Trim(parts[k]) : k \in 1..Len(parts)}

\* ignoreCountPerTagName.get(name) ?? 0
IgnoreCount(counts, name) == IF name \in DOMAIN counts THEN counts[name] ELSE 0

\* names.forEach((name) => ignoreCountPerTagName.set(name, value))
SetIgnoreCounts(counts, names, value) ==
    [n \in (DOMAIN counts) \cup names |-> IF n \in names THEN value ELSE counts[n]]

\* tag.relativeTargetRange ?? 1
IgnoreRangeOf(tag) ==
    IF tag.hasRelativeTargetRange THEN tag.relativeTargetRange ELSE 1

\* The cutoff set by a directive without a list of names: the tag's line
\* stands in for one line too few
IgnoredUntilLineIndexOneShort(tag, ignoreRange) == tag.range.end.line + ignoreRange - 1

\* tagsIgnoredUntilLineIndex = tag.range.end.line + ignoreRange
IgnoredUntilLineIndex(tag, ignoreRange) == tag.range.end.line + ignoreRange

\* The test against the first content range only
IsInFirstPreviousContent(contentRanges, tag) ==
    Len(contentRanges) > 0 /\ secondRangeIsInFirst(contentRanges[1], tag.range)

\* previousContentRanges.some((range) => secondRangeIsInFirst(range, tag.range))
IsInPreviousContent(contentRanges, tag) ==
    \E k \in 1..Len(contentRanges) : secondRangeIsInFirst(contentRanges[k], tag.range)

\* The callback of annotationTags.forEach for one tag: the path taken, the
\* return statement reached, and the new ignore window
ProcessTagResult(lines, tag, counts, cutoff, contentRanges) ==
    LET inPreviousContent == IsInPreviousContent(contentRanges, tag)
        ignoreCount == IgnoreCount(counts, tag.name)
        ignoreRange == IgnoreRangeOf(tag)
        unchanged == [counts |-> counts, cutoff |-> cutoff, added |-> FALSE]
    IN IF inPreviousContent
       THEN unchanged @@ [outcome |-> "inPreviousContent", lookedUp |-> FALSE,
                          comment |-> NoComment]
       ELSE
       With(parseParentComment(lines, tag), LAMBDA comment :
       IF ~comment.found
       THEN unchanged @@ [outcome |-> "noComment", lookedUp |-> TRUE,
                          comment |-> comment]
       ELSE IF cutoff >= tag.range.start.line
       THEN unchanged @@ [outcome |-> "ignoredByLine", lookedUp |-> TRUE,
                          comment |-> comment]
       ELSE IF ignoreCount > 0
       THEN [counts |-> SetIgnoreCounts(counts, {tag.name}, ignoreCount - 1),
             cutoff |-> cutoff, added |-> FALSE,
             outcome |-> "ignoredByName", lookedUp |-> TRUE, comment |-> comment]
       ELSE IF tag.name = IgnoreTagsName
       THEN IF \/ Truthy(comment.annotationRange.start.column)
               \/ Truthy(comment.annotationRange.end.column)
            THEN unchanged @@ [outcome |-> "directiveNotOnOwnLine", lookedUp |-> TRUE,
                               comment |-> comment]
            ELSE IF tag.targetSearchQuery.kind = "string"
            THEN [counts |-> SetIgnoreCounts(counts,
                                 TargetTagNames(tag.targetSearchQuery.source),
                                 ignoreRange),
                  cutoff |-> cutoff, added |-> FALSE,
                  outcome |-> "directive", lookedUp |-> TRUE, comment |-> comment]
            ELSE [counts |-> counts,
                  cutoff |-> IF ignoreRange > 0
                             THEN IgnoredUntilLineIndex(tag, ignoreRange) ELSE cutoff,
                  added |-> FALSE,
                  outcome |-> "directive", lookedUp |-> TRUE, comment |-> comment]
       ELSE [counts |-> counts, cutoff |-> cutoff, added |-> TRUE,
             outcome |-> "added", lookedUp |-> TRUE, comment |-> comment])

\* One iteration of annotationTags.forEach in parseAnnotationComments
ProcessTag ==
    /\ pc = "tags"
    /\ tagIndex < Len(annotationTags)
    /\ \E r \in {ProcessTagResult(codeLines, annotationTags[tagIndex + 1],
                                   ignoreCountPerTagName, tagsIgnoredUntilLineIndex,
                                   previousContentRanges)} :
          /\ ignoreCountPerTagName' = r.counts
          /\ tagsIgnoredUntilLineIndex' = r.cutoff
          /\ annotationComments' =
                 IF r.added THEN Append(annotationComments, r.comment)
                 ELSE annotationComments
          /\ previousContentRanges' =
                 IF r.added THEN r.comment.contentRanges ELSE previousContentRanges
          /\ tagLog' = Append(tagLog, [outcome |-> r.outcome, lookedUp |-> r.lookedUp])
    /\ tagIndex' = tagIndex + 1
    /\ pc' = IF tagIndex + 1 = Len(annotationTags) THEN "parsed" ELSE "tags"
    /\ UNCHANGED <<codeLines, scanLineIndex, annotationTags, thrownError,
                   cleanOptions, originalCodeLines, cleanerVars, resolverVars>>

(***************************************************************************)
(* Target resolver: findAnnotationTargets                                  *)
(***************************************************************************)

\* annotationComments.map((comment) => comment.commentRange)
CommentRangesOf(comments) == [k \in 1..Len(comments) |-> comments[k].commentRange]

\* getNonAnnotationCommentLineContents(lineIndex, annotatedCode)
getNonAnnotationCommentLineContents(lines, comments, lineIndex) ==
    With(excludeRangesFromOuterRange(lines, createSingleLineRange(lineIndex),
                                     CommentRangesOf(comments)),
         LAMBDA contentRanges :
    With(excludeWhitespaceRanges(lines, contentRanges),
         LAMBDA nonWhitespaceContentRanges :
    [found |-> TRUE,
     lineIndex |-> lineIndex,
     contentRanges |-> contentRanges,
     nonWhitespaceContentRanges |-> nonWhitespaceContentRanges,
     hasNonWhitespaceContent |-> Len(nonWhitespaceContentRanges) > 0]))

\* What `contents?.hasNonWhitespaceContent` reads when the scan of
\* getFirstNonAnnotationCommentLineContents leaves the code: undefined
NoLineContents ==
    [found |-> FALSE, lineIndex |-> Undef, contentRanges |-> <<>>,
     nonWhitespaceContentRanges |-> <<>>, hasNonWhitespaceContent |-> FALSE]

\* The while loop of getFirstNonAnnotationCommentLineContents
RECURSIVE FirstNonAnnotationCommentLineFrom(_, _, _, _)
FirstNonAnnotationCommentLineFrom(lines, comments, lineIndex, step) ==
    IF lineIndex < 0 \/ lineIndex >= Len(lines) THEN NoLineContents
    ELSE With(getNonAnnotationCommentLineContents(lines, comments, lineIndex),
              LAMBDA contents :
                  IF Len(contents.contentRanges) > 0 THEN contents
                  ELSE FirstNonAnnotationCommentLineFrom(lines, comments,
                                                         lineIndex + step, step))

\* getFirstNonAnnotationCommentLineContents(startLineIndex, searchDirection,
\* annotatedCode)
getFirstNonAnnotationCommentLineContents(lines, comments, startLineIndex, searchDirection) ==
    LET step == IF searchDirection = "above" THEN -1 ELSE 1
    IN FirstNonAnnotationCommentLineFrom(lines, comments, startLineIndex + step, step)

\* content.indexOf(searchQuery, from), or -1
RECURSIVE IndexOf(_, _, _)
IndexOf(content, searchQuery, from) ==
    IF from + Len(searchQuery) > Len(content) THEN -1
    ELSE IF StartsWithAt(content, searchQuery, from) THEN from
    ELSE IndexOf(content, searchQuery, from + 1)

\* The while loop of findSearchQueryMatchesInLine for a plaintext search
\* term, as column ranges within content; idx is the match at hand
RECURSIVE StringMatchColumnRanges(_, _, _)
StringMatchColumnRanges(content, searchQuery, idx) ==
    IF idx = -1 THEN <<>>
    ELSE <<[start |-> idx, end |-> idx + Len(searchQuery)]>>
         \o StringMatchColumnRanges(content, searchQuery,
                                    IndexOf(content, searchQuery, idx + Len(searchQuery)))

\* The text that a pattern made of literal characters and capturing groups
\* matches
RECURSIVE RegExpLiteralText(_)
RegExpLiteralText(pattern) ==
    IF Len(pattern) = 0 THEN <<>>
    ELSE IF Head(pattern) \in {"(", ")"} THEN RegExpLiteralText(Tail(pattern))
    ELSE <<Head(pattern)>> \o RegExpLiteralText(Tail(pattern))

\* Position in the pattern of the ")" that closes a group; k is the
\* position to look at, depth the number of groups open there
RECURSIVE ClosingParen(_, _, _)
ClosingParen(pattern, k, depth) ==
    IF pattern[k] = ")"
    THEN IF depth = 1 THEN k ELSE ClosingParen(pattern, k + 1, depth - 1)
    ELSE ClosingParen(pattern, k + 1, IF pattern[k] = "(" THEN depth + 1 ELSE depth)

\* match.indices of the capturing groups, relative to the start of the
\* match, in the order of the groups
RECURSIVE GroupIndicesFrom(_, _)
GroupIndicesFrom(pattern, k) ==
    IF k > Len(pattern) THEN <<>>
    ELSE IF pattern[k] = "("
    THEN <<[start |-> Len(RegExpLiteralText(SubSeq(pattern, 1, k))),
            end |-> Len(RegExpLiteralText(
                            SubSeq(pattern, 1, ClosingParen(pattern, k + 1, 1))))]>>
         \o GroupIndicesFrom(pattern, k + 1)
    ELSE GroupIndicesFrom(pattern, k + 1)

\* The for loop over content.matchAll(regExp) in findRegExpMatchColumnRanges:
\* the capture groups of a match if it has any, otherwise the full match
RECURSIVE RegExpMatchColumnRanges(_, _, _, _)
RegExpMatchColumnRanges(content, text, groupIndices, idx) ==
    IF idx = -1 THEN <<>>
    ELSE (IF Len(groupIndices) = 0
          THEN <<[start |-> idx, end |-> idx + Len(text)]>>
          ELSE [g \in 1..Len(groupIndices) |->
                   [start |-> idx + groupIndices[g].start,
                    end |-> idx + groupIndices[g].end]])
         \o RegExpMatchColumnRanges(content, text, groupIndices,
                IndexOf(content, text, idx + (IF Len(text) = 0 THEN 1 ELSE Len(text))))

\* findRegExpMatchColumnRanges(content, regExp), for the patterns made of
\* literal characters and capturing groups
findRegExpMatchColumnRanges(content, pattern) ==
    With(RegExpLiteralText(pattern), LAMBDA text :
        RegExpMatchColumnRanges(content, text, GroupIndicesFrom(pattern, 1),
                                IndexOf(content, text, 0)))

\* lineContents.contentRanges.forEach(...) of findSearchQueryMatchesInLine
RECURSIVE MatchesInContentRanges(_, _, _, _)
MatchesInContentRanges(lines, lineIndex, searchQuery, contentRanges) ==
    IF Len(contentRanges) = 0 THEN <<>>
    ELSE LET contentRange == Head(contentRanges)
             line == lines[lineIndex + 1]
             startColumn == IF contentRange.start.column = Undef THEN 0
                            ELSE contentRange.start.column
             endColumn == IF contentRange.end.column = Undef THEN Len(line)
                          ELSE contentRange.end.column
         IN With(Slice(line, startColumn, endColumn), LAMBDA content :
            With(IF searchQuery.kind = "string"
                 THEN StringMatchColumnRanges(content, searchQuery.source,
                                              IndexOf(content, searchQuery.source, 0))
                 ELSE findRegExpMatchColumnRanges(content, searchQuery.source),
                 LAMBDA columnRanges :
                [m \in 1..Len(columnRanges) |->
                    createRange(lines,
                                Loc(lineIndex, startColumn + columnRanges[m].start),
                                Loc(lineIndex, startColumn + columnRanges[m].end))]))
            \o MatchesInContentRanges(lines, lineIndex, searchQuery, Tail(contentRanges))

\* findSearchQueryMatchesInLine(lineIndex, searchQuery, annotatedCode)
findSearchQueryMatchesInLine(lines, comments, lineIndex, searchQuery) ==
    With(getNonAnnotationCommentLineContents(lines, comments, lineIndex),
         LAMBDA lineContents :
             MatchesInContentRanges(lines, lineIndex, searchQuery,
                                    lineContents.contentRanges))

\* The target of a tag without search query and without relative range, with
\* the line above tried before the line below
NearbyTargetRangesAboveFirst(lines, comments, commentLineIndex, commentLineContents) ==
    IF commentLineContents.hasNonWhitespaceContent
    THEN <<createSingleLineRange(commentLineIndex)>>
    ELSE With(getFirstNonAnnotationCommentLineContents(lines, comments,
                                                       commentLineIndex, "above"),
              LAMBDA potentialTargetAbove :
         IF potentialTargetAbove.hasNonWhitespaceContent
         THEN <<createSingleLineRange(potentialTargetAbove.lineIndex)>>
         ELSE With(getFirstNonAnnotationCommentLineContents(lines, comments,
                                                            commentLineIndex, "below"),
                   LAMBDA potentialTargetBelow :
              IF potentialTargetBelow.hasNonWhitespaceContent
              THEN <<createSingleLineRange(potentialTargetBelow.lineIndex)>>
              ELSE <<>>))

\* The target of a tag without search query and without relative range: the
\* comment line, the line below or the line above
NearbyTargetRanges(lines, comments, commentLineIndex, commentLineContents) ==
    IF commentLineContents.hasNonWhitespaceContent
    THEN <<createSingleLineRange(commentLineIndex)>>
    ELSE With(getFirstNonAnnotationCommentLineContents(lines, comments,
                                                       commentLineIndex, "below"),
              LAMBDA potentialTargetBelow :
         IF potentialTargetBelow.hasNonWhitespaceContent
         THEN <<createSingleLineRange(potentialTargetBelow.lineIndex)>>
         ELSE With(getFirstNonAnnotationCommentLineContents(lines, comments,
                                                            commentLineIndex, "above"),
                   LAMBDA potentialTargetAbove :
              IF potentialTargetAbove.hasNonWhitespaceContent
              THEN <<createSingleLineRange(potentialTargetAbove.lineIndex)>>
              ELSE <<>>))

IsTargetLineWithText(lineContents) == lineContents.hasNonWhitespaceContent

\* The test of the selection loop: if (lineContents.contentRanges.length)
IsTargetLine(lineContents) == Len(lineContents.contentRanges) > 0

\* The while loop that selects remainingLines lines in the direction of step
RECURSIVE SelectTargetLines(_, _, _, _, _)
SelectTargetLines(lines, comments, lineIndex, step, remainingLines) ==
    IF lineIndex < 0 \/ lineIndex >= Len(lines) \/ remainingLines <= 0 THEN <<>>
    ELSE With(getNonAnnotationCommentLineContents(lines, comments, lineIndex),
              LAMBDA lineContents :
         IF IsTargetLine(lineContents)
         THEN <<createSingleLineRange(lineIndex)>>
              \o SelectTargetLines(lines, comments, lineIndex + step, step,
                                   remainingLines - 1)
         ELSE SelectTargetLines(lines, comments, lineIndex + step, step, remainingLines))

\* The direction of a search without relative range
InferredTargetRange(lines, comments, commentLineIndex, commentLineContents) ==
    IF commentLineContents.hasNonWhitespaceContent THEN 1
    ELSE LET isGroupedWithContentAbove ==
                 /\ ~getFirstNonAnnotationCommentLineContents(
                         lines, comments, commentLineIndex, "below").hasNonWhitespaceContent
                 /\ getFirstNonAnnotationCommentLineContents(
                         lines, comments, commentLineIndex, "above").hasNonWhitespaceContent
         IN IF isGroupedWithContentAbove THEN -1 ELSE 1

MatchesTakenAll(matches, step, remainingMatches) ==
    IF step > 0 THEN matches ELSE Reverse(matches)

\* The inner while loop of the search: the matches of one line that get
\* pushed, walked in the direction of step
MatchesTaken(matches, step, remainingMatches) ==
    LET walked == IF step > 0 THEN matches ELSE Reverse(matches)
    IN SubSeq(walked, 1, Min(Len(walked), remainingMatches))

\* The outer while loop of the search
RECURSIVE SearchTargets(_, _, _, _, _, _)
SearchTargets(lines, comments, searchQuery, lineIndex, step, remainingMatches) ==
    IF lineIndex < 0 \/ lineIndex >= Len(lines) \/ remainingMatches <= 0 THEN <<>>
    ELSE With(MatchesTaken(findSearchQueryMatchesInLine(lines, comments, lineIndex,
                                                        searchQuery),
                           step, remainingMatches),
              LAMBDA taken :
                  taken \o SearchTargets(lines, comments, searchQuery, lineIndex + step,
                                         step, remainingMatches - Len(taken)))

\* The comparator of the final sort: (a, b) => compareRanges(b, a, 'start')
TargetRangeComparator(a, b) == compareRanges(b, a, "start", "start")

\* Insertion of one range into a list sorted by the comparator, behind its
\* equals
RECURSIVE InsertByComparator(_, _)
InsertByComparator(sorted, range) ==
    IF Len(sorted) = 0 THEN <<range>>
    ELSE IF TargetRangeComparator(Head(sorted), range) <= 0
    THEN <<Head(sorted)>> \o InsertByComparator(Tail(sorted), range)
    ELSE <<range>> \o sorted

\* targetRanges.sort((a, b) => compareRanges(b, a, 'start')): a stable sort
RECURSIVE SortTargetRanges(_)
SortTargetRanges(ranges) ==
    IF Len(ranges) = 0 THEN <<>>
    ELSE InsertByComparator(SortTargetRanges(SubSeq(ranges, 1, Len(ranges) - 1)),
                            ranges[Len(ranges)])

Abs(n) == IF n < 0 THEN -n ELSE n

\* The statements after the relative target range is known: the walk or the
\* search, and the sort of a negative direction
TargetRangesInDirection(lines, comments, comment, relativeTargetRange) ==
    LET step == IF relativeTargetRange > 0 THEN 1 ELSE -1
        commentLineIndex == comment.commentRange.start.line
    IN With(IF comment.tag.targetSearchQuery.kind = "undefined"
            THEN SelectTargetLines(lines, comments, commentLineIndex, step,
                                   Abs(relativeTargetRange))
            ELSE SearchTargets(lines, comments, comment.tag.targetSearchQuery,
                               commentLineIndex, step, Abs(relativeTargetRange)),
            LAMBDA pushed :
                IF relativeTargetRange < 0
                THEN SortTargetRanges(comment.targetRanges \o pushed)
                ELSE comment.targetRanges \o pushed)

\* The callback of annotationComments.forEach in findAnnotationTargets for
\* one comment: its targetRanges afterwards, and the relative target range
\* that was in effect (given or inferred)
ResolveTargets(lines, comments, comment) ==
    LET tag == comment.tag
        commentLineIndex == comment.commentRange.start.line
        given == [hasRelativeTargetRange |-> tag.hasRelativeTargetRange,
                  relativeTargetRange |-> tag.relativeTargetRange]
    IN IF tag.name = IgnoreTagsName
       THEN given @@ [targetRanges |-> comment.targetRanges]
       ELSE
       With(getNonAnnotationCommentLineContents(lines, comments, commentLineIndex),
            LAMBDA commentLineContents :
       IF tag.targetSearchQuery.kind = "undefined" /\ ~tag.hasRelativeTargetRange
       THEN given @@
            [targetRanges |->
                 comment.targetRanges
                 \o NearbyTargetRanges(lines, comments, commentLineIndex,
                                       commentLineContents)]
       ELSE
       With(IF tag.hasRelativeTargetRange THEN tag.relativeTargetRange
            ELSE InferredTargetRange(lines, comments, commentLineIndex,
                                     commentLineContents),
            LAMBDA relativeTargetRange :
       [hasRelativeTargetRange |-> TRUE,
        relativeTargetRange |-> relativeTargetRange,
        targetRanges |->
            TargetRangesInDirection(lines, comments, comment, relativeTargetRange)]))

\* findAnnotationTargets(annotatedCode): every comment of the list gets its
\* targets
FindTargets ==
    /\ pc = "parsed"
    /\ \E resolved \in
              {[k \in 1..Len(annotationComments) |->
                   ResolveTargets(codeLines, annotationComments, annotationComments[k])]} :
          /\ annotationComments' =
                 [k \in 1..Len(annotationComments) |->
                     [annotationComments[k] EXCEPT
                         !.targetRanges = resolved[k].targetRanges]]
          /\ targetLog' =
                 [k \in 1..Len(annotationComments) |->
                     [hasRelativeTargetRange |-> resolved[k].hasRelativeTargetRange,
                      relativeTargetRange |-> resolved[k].relativeTargetRange]]
    /\ pc' = "targeted"
    /\ UNCHANGED <<codeLines, cleanOptions, originalCodeLines, parserVars, cleanerVars,
                   lineSearch>>

(***************************************************************************)
(* Target resolver: findSearchQueryMatchesInLine, statement by statement   *)
(***************************************************************************)

\* the most matches that the model lets a match search push
MaxMatches == 3

\* The locals of findSearchQueryMatchesInLine outside a call
NoLineSearch ==
    [comment |-> 0, lineIndex |-> Undef, contentIndex |-> 0, idx |-> -1, ranges |-> <<>>]

\* lineContents.contentRanges of the line that is searched
ContentRangesOfSearch(lines, comments, search) ==
    getNonAnnotationCommentLineContents(lines, comments, search.lineIndex).contentRanges

\* const startColumn = contentRange.start.column ?? 0
StartColumnOfContent(contentRange) ==
    IF contentRange.start.column = Undef THEN 0 ELSE contentRange.start.column

\* const content = codeLines[lineIndex].slice(startColumn, contentRange.end.column)
ContentOf(lines, lineIndex, contentRange) ==
    Slice(lines[lineIndex + 1], StartColumnOfContent(contentRange),
          IF contentRange.end.column = Undef THEN Len(lines[lineIndex + 1])
          ELSE contentRange.end.column)

\* The callback of contentRanges.forEach up to the test of the while loop,
\* for the content range at search.contentIndex: a plaintext search term
\* gets its first idx; the matches of a regular expression are all pushed
EnterContentRange(lines, search, searchQuery, contentRange) ==
    With(ContentOf(lines, search.lineIndex, contentRange), LAMBDA content :
        IF searchQuery.kind = "string"
        THEN [search EXCEPT !.idx = IndexOf(content, searchQuery.source, 0)]
        ELSE With(findRegExpMatchColumnRanges(content, searchQuery.source),
                  LAMBDA matchRanges :
             [search EXCEPT
                 !.idx = -1,
                 !.ranges = @ \o
                     [m \in 1..Len(matchRanges) |->
                         createRange(lines,
                                     Loc(search.lineIndex,
                                         StartColumnOfContent(contentRange)
                                             + matchRanges[m].start),
                                     Loc(search.lineIndex,
                                         StartColumnOfContent(contentRange)
                                             + matchRanges[m].end))]]))

\* The relative target range that the search of the comment goes by: the
\* one of the tag, or the inferred one
SearchTargetRange(lines, comments, comment) ==
    IF comment.tag.hasRelativeTargetRange THEN comment.tag.relativeTargetRange
    ELSE InferredTargetRange(lines, comments, comment.commentRange.start.line,
             getNonAnnotationCommentLineContents(lines, comments,
                                                 comment.commentRange.start.line))

\* findAnnotationTargets searches line lineIndex for the comment: the comment
\* has a search query and a relative target range other than 0, and the line
\* is the comment's start line or follows it in the direction of the search
\* behind lines without content ranges, which hold no match
IsSearchedLine(lines, comments, comment, lineIndex) ==
    /\ comment.tag.name # IgnoreTagsName
    /\ comment.tag.targetSearchQuery.kind # "undefined"
    /\ \E relativeTargetRange \in {SearchTargetRange(lines, comments, comment)} :
           /\ relativeTargetRange # 0
           /\ \E count \in 0..(Len(lines) - 1) :
                  /\ lineIndex = comment.commentRange.start.line
                                 + (IF relativeTargetRange > 0 THEN count ELSE -count)
                  /\ \A before \in 0..(count - 1) :
                         Len(getNonAnnotationCommentLineContents(lines, comments,
                                 comment.commentRange.start.line
                                 + (IF relativeTargetRange > 0 THEN before ELSE -before)
                             ).contentRanges) = 0

\* findSearchQueryMatchesInLine is called for a line: the statements up to
\* the first test of the while loop
StartLineSearch ==
    /\ pc = "parsed"
    /\ \E k \in 1..Len(annotationComments), lineIndex \in 0..(Len(codeLines) - 1) :
           /\ IsSearchedLine(codeLines, annotationComments, annotationComments[k], lineIndex)
           /\ \E search \in {[NoLineSearch EXCEPT !.comment = k, !.lineIndex = lineIndex]} :
              \E contentRanges \in
                     {ContentRangesOfSearch(codeLines, annotationComments, search)} :
                  IF Len(contentRanges) = 0
                  THEN lineSearch' = search /\ pc' = "searched"
                  ELSE /\ lineSearch' =
                              EnterContentRange(codeLines, search,
                                  annotationComments[k].tag.targetSearchQuery,
                                  contentRanges[1])
                       /\ pc' = "searching"
    /\ UNCHANGED <<codeLines, annotationComments, cleanOptions, originalCodeLines,
                   parserVars, cleanerVars, targetLog>>

\* One iteration of the while loop of a plaintext search term: the match at
\* idx is pushed and the next one is looked up
PushMatch ==
    /\ pc = "searching"
    /\ lineSearch.idx > -1
    /\ Len(lineSearch.ranges) < MaxMatches
    /\ \E searchQuery \in {annotationComments[lineSearch.comment].tag.targetSearchQuery.source} :
       \E contentRange \in
              {ContentRangesOfSearch(codeLines, annotationComments, lineSearch)
                   [lineSearch.contentIndex + 1]} :
       \E content \in {ContentOf(codeLines, lineSearch.lineIndex, contentRange)} :
          lineSearch' =
              [lineSearch EXCEPT
                  !.ranges = Append(@,
                      createRange(codeLines,
                          Loc(lineSearch.lineIndex,
                              StartColumnOfContent(contentRange) + lineSearch.idx),
                          Loc(lineSearch.lineIndex,
                              StartColumnOfContent(contentRange) + lineSearch.idx
                                  + Len(searchQuery)))),
                  !.idx = IndexOf(content, searchQuery,
                                  lineSearch.idx + Len(searchQuery))]
    /\ UNCHANGED <<codeLines, pc, annotationComments, cleanOptions, originalCodeLines,
                   parserVars, cleanerVars, targetLog>>

\* The while loop is left: forEach goes on with the next content range, or
\* findSearchQueryMatchesInLine returns ranges
LeaveContentRange ==
    /\ pc = "searching"
    /\ lineSearch.idx = -1
    /\ \E contentRanges \in
              {ContentRangesOfSearch(codeLines, annotationComments, lineSearch)} :
          IF lineSearch.contentIndex + 1 >= Len(contentRanges)
          THEN /\ lineSearch' = [lineSearch EXCEPT !.contentIndex = @ + 1]
               /\ pc' = "searched"
          ELSE /\ lineSearch' =
                      EnterContentRange(codeLines,
                          [lineSearch EXCEPT !.contentIndex = @ + 1],
                          annotationComments[lineSearch.comment].tag.targetSearchQuery,
                          contentRanges[lineSearch.contentIndex + 2])
               /\ pc' = "searching"
    /\ UNCHANGED <<codeLines, annotationComments, cleanOptions, originalCodeLines,
                   parserVars, cleanerVars, targetLog>>

(***************************************************************************)
(* Cleaner: cleanCode                                                      *)
(***************************************************************************)

\* The defaults of the destructured options of cleanCode
DefaultCleanOptions ==
    [removeAnnotationContents |-> [type |-> "boolean", value |-> FALSE, names |-> {}],
     updateTargetRanges |-> TRUE,
     handleRemoveLine |-> "none",
     handleEditLine |-> "none"]

\* A caller's removeAnnotationContents({ comment }) handler: it decides by
\* the name of the comment's tag
RemoveAnnotationContentsHandler(option, comment) == comment.tag.name \in option.names

\* The decision taken from the option alone, whether or not the comment
\* has contents
removeEntireAnnotationByOption(options, annotationComment) ==
    LET option == options.removeAnnotationContents
    IN IF option.type = "function"
       THEN RemoveAnnotationContentsHandler(option, annotationComment)
       ELSE option.value

\* removeEntireAnnotation of one annotation comment
removeEntireAnnotation(options, annotationComment) ==
    LET hasContents == Len(annotationComment.contents) > 0
        option == options.removeAnnotationContents
    IN \/ ~hasContents
       \/ IF option.type = "function"
          THEN RemoveAnnotationContentsHandler(option, annotationComment)
          ELSE option.value

\* The range pushed to rangesToBeRemoved for one annotation comment
\* (body of the first annotationComments.forEach)
PlannedRemovalRange(lines, options, annotationComment) ==
    LET entire == removeEntireAnnotation(options, annotationComment)
        rangeToBeRemoved ==
            cloneRange(IF entire THEN annotationComment.annotationRange
                       ELSE annotationComment.tag.range)
        lineAboveIndex == rangeToBeRemoved.start.line - 1
        contentInLineAbove ==
            excludeWhitespaceRanges(lines, <<createSingleLineRange(lineAboveIndex)>>)
    IN IF /\ entire
          /\ annotationComment.commentInnerRange.start.line < lineAboveIndex
          /\ Len(contentInLineAbove) = 0
       THEN [rangeToBeRemoved EXCEPT !.start = Loc(lineAboveIndex, Undef)]
       ELSE rangeToBeRemoved

\* The first annotationComments.forEach of cleanCode
AnnotationRemovalRanges(lines, options, comments) ==
    [k \in 1..Len(comments) |-> PlannedRemovalRange(lines, options, comments[k])]

\* array.some((range) => rangesAreEqual(range, target))
SomeRangeEquals(ranges, target) ==
    \E k \in 1..Len(ranges) : rangesAreEqual(ranges[k], target)

\* The second annotationComments.forEach of cleanCode: the parent comments
\* that become empty are added to the removals
RECURSIVE AddEmptyParentComments(_, _, _, _, _)
AddEmptyParentComments(lines, comments, k, handledRanges, removals) ==
    IF k > Len(comments) THEN removals
    ELSE LET comment == comments[k]
             remainingParts ==
                 excludeRangesFromOuterRange(lines, comment.commentInnerRange, removals)
             nonWhitespaceParts == excludeWhitespaceRanges(lines, remainingParts)
         IN IF SomeRangeEquals(handledRanges, comment.commentInnerRange)
            THEN AddEmptyParentComments(lines, comments, k + 1, handledRanges, removals)
            ELSE IF SomeRangeEquals(removals, comment.commentRange)
            THEN AddEmptyParentComments(lines, comments, k + 1,
                     Append(handledRanges, comment.commentInnerRange), removals)
            ELSE AddEmptyParentComments(lines, comments, k + 1,
                     Append(handledRanges, comment.commentInnerRange),
                     IF Len(nonWhitespaceParts) = 0
                     THEN Append(removals, comment.commentRange)
                     ELSE removals)

\* getRangeRemovalChanges(codeLines, range)
getRangeRemovalChanges(lines, range) ==
    With(splitRangeByLines(range), LAMBDA singleLineRanges :
       [k \in 1..Len(singleLineRanges) |->
           LET singleLineRange == singleLineRanges[k]
               lineIndex == singleLineRange.start.line
               lineLength == StrLen(lines[lineIndex + 1])
               startColumn == IF singleLineRange.start.column = Undef THEN 0
                              ELSE singleLineRange.start.column
               endColumn == IF singleLineRange.end.column = Undef THEN lineLength
                            ELSE singleLineRange.end.column
           IN IF startColumn > 0 \/ endColumn < lineLength
              THEN [editType |-> "editLine", lineIndex |-> lineIndex,
                    startColumn |-> startColumn, endColumn |-> endColumn,
                    newText |-> <<>>]
              ELSE [editType |-> "removeLine", lineIndex |-> lineIndex]])

\* mergedRangesToBeRemoved.flatMap((range) => getRangeRemovalChanges(codeLines, range))
RECURSIVE FlatMapRemovalChanges(_, _)
FlatMapRemovalChanges(lines, ranges) ==
    IF Len(ranges) = 0 THEN <<>>
    ELSE getRangeRemovalChanges(lines, Head(ranges))
         \o FlatMapRemovalChanges(lines, Tail(ranges))

\* The changes applied in the order of the merged ranges, first to last
OrderChangesFirstToLast(unorderedChanges) == unorderedChanges

\* changes.reverse(): the order in which the changes get applied
OrderChanges(unorderedChanges) == Reverse(unorderedChanges)

\* The inner targetRanges.forEach of updateTargetRangesAfterRemoveLine, which
\* splices the array it walks; index counts from 0
RECURSIVE UpdateTargetRangesAfterRemoveLineFrom(_, _, _)
UpdateTargetRangesAfterRemoveLineFrom(targetRanges, change, index) ==
    IF index >= Len(targetRanges) THEN targetRanges
    ELSE LET targetRange == targetRanges[index + 1]
         IN IF targetRange.start.line = change.lineIndex
            THEN UpdateTargetRangesAfterRemoveLineFrom(RemoveAt(targetRanges, index + 1),
                                                       change, index + 1)
            ELSE IF targetRange.start.line > change.lineIndex
            THEN UpdateTargetRangesAfterRemoveLineFrom(
                     [targetRanges EXCEPT ![index + 1].start.line = @ - 1,
                                          ![index + 1].end.line = @ - 1],
                     change, index + 1)
            ELSE UpdateTargetRangesAfterRemoveLineFrom(targetRanges, change, index + 1)

\* updateTargetRangesAfterRemoveLine(annotationComments, change)
updateTargetRangesAfterRemoveLine(comments, change) ==
    [k \in 1..Len(comments) |->
        [comments[k] EXCEPT
            !.targetRanges = UpdateTargetRangesAfterRemoveLineFrom(@, change, 0)]]

updateLocationIfBehindStart(location, change) ==
    IF location.line # change.lineIndex THEN location
    ELSE IF ~Truthy(location.column) \/ change.startColumn >= location.column THEN location
    ELSE LET changeDelta == Len(change.newText) - (change.endColumn - change.startColumn)
         IN [location EXCEPT !.column = @ + changeDelta]

\* updateLocationIfNecessary(location, change)
updateLocationIfNecessary(location, change) ==
    IF location.line # change.lineIndex THEN location
    ELSE IF ~Truthy(location.column) \/ change.startColumn > location.column THEN location
    ELSE LET changeDelta == Len(change.newText) - (change.endColumn - change.startColumn)
         IN [location EXCEPT !.column = @ + changeDelta]

\* updateTargetRangesAfterEditLine(annotationComments, change)
updateTargetRangesAfterEditLine(comments, change) ==
    [k \in 1..Len(comments) |->
        [comments[k] EXCEPT
            !.targetRanges =
                [t \in 1..Len(@) |->
                    [start |-> updateLocationIfNecessary(@[t].start, change),
                     end |-> updateLocationIfNecessary(@[t].end, change)]]]]

\* cleanCode up to changes.reverse(): plans the removals and derives the
\* per-line changes from the code as it was passed in
PlanChanges ==
    /\ pc = "targeted"
    /\ \E allRemovals \in
              {AddEmptyParentComments(codeLines, annotationComments, 1, <<>>,
                   AnnotationRemovalRanges(codeLines, cleanOptions, annotationComments))} :
       \E orderedChanges \in
              {OrderChanges(FlatMapRemovalChanges(codeLines,
                   mergeIntersectingOrAdjacentRanges(allRemovals)))} :
          /\ rangesToBeRemoved' = allRemovals
          /\ changes' = orderedChanges
          /\ pc' = IF Len(orderedChanges) = 0 THEN "cleaned" ELSE "cleaning"
    /\ changeIndex' = 0
    /\ UNCHANGED <<codeLines, annotationComments, cleanOptions, originalCodeLines,
                   parserVars, resolverVars>>

HandlesChangeIfPresent(hook) == hook # "none"

\* The hook test of cleanCode, negated: the caller passed a hook and the hook
\* returned a truthy value for the change. A hook is "none" if the caller
\* passed none, "handled" if it returns true and "declined" if it returns
\* false.
HandlesChange(hook) == hook = "handled"

\* One iteration of changes.forEach in cleanCode
ApplyChange ==
    /\ pc = "cleaning"
    /\ changeIndex < Len(changes)
    /\ LET change == changes[changeIndex + 1]
           line == codeLines[change.lineIndex + 1]
       IN IF change.editType = "removeLine"
          THEN /\ codeLines' =
                      IF HandlesChange(cleanOptions.handleRemoveLine) THEN codeLines
                      ELSE RemoveAt(codeLines, change.lineIndex + 1)
               /\ annotationComments' =
                      IF cleanOptions.updateTargetRanges
                      THEN updateTargetRangesAfterRemoveLine(annotationComments, change)
                      ELSE annotationComments
          ELSE /\ codeLines' =
                      IF HandlesChange(cleanOptions.handleEditLine) THEN codeLines
                      ELSE [codeLines EXCEPT ![change.lineIndex + 1] =
                               Slice(line, 0, change.startColumn) \o change.newText
                               \o SliceFrom(line, change.endColumn)]
               /\ annotationComments' =
                      IF cleanOptions.updateTargetRanges
                      THEN updateTargetRangesAfterEditLine(annotationComments, change)
                      ELSE annotationComments
    /\ changeIndex' = changeIndex + 1
    /\ pc' = IF changeIndex + 1 = Len(changes) THEN "cleaned" ELSE "cleaning"
    /\ UNCHANGED <<cleanOptions, originalCodeLines, rangesToBeRemoved, changes, parserVars,
                   resolverVars>>

(***************************************************************************)
(* Inputs                                                                  *)
(***************************************************************************)

\* x
LnCode == <<"x">>

\* // [!n] t
LnNote == <<"/", "/", " ", "[", "!", "n", "]", " ", "t">>

\* x // [!n]
LnCodeNote == <<"x", " ", "/", "/", " ", "[", "!", "n", "]">>

\* // [!i]
LnIns == <<"/", "/", " ", "[", "!", "i", "]">>

\* // [!n] // [!i]
LnChain == <<"/", "/", " ", "[", "!", "n", "]", " ", "/", "/", " ", "[", "!", "i", "]">>

\* "[!n]"
LnString == <<"\"", "[", "!", "n", "]", "\"">>

\* // [!ignore-tags]
LnIgnore == <<"/", "/", " ", "[", "!", "i", "g", "n", "o", "r", "e", "-", "t", "a", "g", "s", "]">>

\* // [!ignore-tags:2]
LnIgnore2 == <<"/", "/", " ", "[", "!", "i", "g", "n", "o", "r", "e", "-", "t", "a", "g", "s", ":", "2", "]">>

\* // [!ignore-tags:0]
LnIgnore0 == <<"/", "/", " ", "[", "!", "i", "g", "n", "o", "r", "e", "-", "t", "a", "g", "s", ":", "0", "]">>

\* x // [!ignore-tags]
LnCodeIgnore == <<"x", " ", "/", "/", " ", "[", "!", "i", "g", "n", "o", "r", "e", "-", "t", "a", "g", "s", "]">>

\* // [!ignore-tags:n]
LnIgnoreN == <<"/", "/", " ", "[", "!", "i", "g", "n", "o", "r", "e", "-", "t", "a", "g", "s", ":", "n", "]">>

\* // [!ignore-tags:n,i:2]
LnIgnoreNI2 == <<"/", "/", " ", "[", "!", "i", "g", "n", "o", "r", "e", "-", "t", "a", "g", "s", ":", "n", ",", "i", ":", "2", "]">>

\* // [!ignore-tags:n:0]
LnIgnoreN0 == <<"/", "/", " ", "[", "!", "i", "g", "n", "o", "r", "e", "-", "t", "a", "g", "s", ":", "n", ":", "0", "]">>

\* // [!n:/(/] // [!i]
LnBadRegex == <<"/", "/", " ", "[", "!", "n", ":", "/", "(", "/", "]", " ", "/", "/", " ", "[", "!", "i", "]">>

\* // [!n:/a(b)/]
LnRegex == <<"/", "/", " ", "[", "!", "n", ":", "/", "a", "(", "b", ")", "/", "]">>

\* // [!i] u
LnInsText == <<"/", "/", " ", "[", "!", "i", "]", " ", "u">>

\* /* [!i] */ x
LnBlockIns == <<"/", "*", " ", "[", "!", "i", "]", " ", "*", "/", " ", "x">>

\* /**
LnDocOpen == <<"/", "*", "*">>

\*  *
LnDocBlank == <<" ", "*">>

\*  * [!n]
LnDocNote == <<" ", "*", " ", "[", "!", "n", "]">>

\*  * [!i] t
LnDocInsText == <<" ", "*", " ", "[", "!", "i", "]", " ", "t">>

\*  * p
LnDocProse == <<" ", "*", " ", "p">>

\*  */
LnDocClose == <<" ", "*", "/">>

\* /*
LnBlockOpen == <<"/", "*">>

\* (an empty line)
LnBlockBlank == <<>>

\*  [!n]
LnBlockNote == <<" ", "[", "!", "n", "]">>

\*  [!i] t
LnBlockInsText == <<" ", "[", "!", "i", "]", " ", "t">>

\*  p
LnBlockProse == <<" ", "p">>

\* */
LnBlockClose == <<"*", "/">>

\* an empty line
LnEmpty == <<>>

\* // [!n:2]
LnRange2 == <<"/", "/", " ", "[", "!", "n", ":", "2", "]">>

\* // [!n:-2]
LnRangeBack2 == <<"/", "/", " ", "[", "!", "n", ":", "-", "2", "]">>

\* // [!n:0]
LnRange0 == <<"/", "/", " ", "[", "!", "n", ":", "0", "]">>

\* x // [!n:3]
LnCodeRange3 == <<"x", " ", "/", "/", " ", "[", "!", "n", ":", "3", "]">>

\* x x
LnTwo == <<"x", " ", "x">>

\* // [!n:x]
LnSearch == <<"/", "/", " ", "[", "!", "n", ":", "x", "]">>

\* x // [!n:x]
LnCodeSearch == <<"x", " ", "/", "/", " ", "[", "!", "n", ":", "x", "]">>

\* // [!n:x:0]
LnSearch0 == <<"/", "/", " ", "[", "!", "n", ":", "x", ":", "0", "]">>

\* /* [!n:x] */ x
LnBlockSearch == <<"/", "*", " ", "[", "!", "n", ":", "x", "]", " ", "*", "/", " ", "x">>

\* // [!n:x:-2]
LnSearchBack2 == <<"/", "/", " ", "[", "!", "n", ":", "x", ":", "-", "2", "]">>

\* x // [!n:x:2]
LnCodeSearch2 == <<"x", " ", "/", "/", " ", "[", "!", "n", ":", "x", ":", "2", "]">>

\* x /*
LnCodeBlockOpen == <<"x", " ", "/", "*">>

\* */ x
LnBlockCloseCode == <<"*", "/", " ", "x">>

\* x /* [!i] */ x
LnCodeBlockInsCode == <<"x", " ", "/", "*", " ", "[", "!", "i", "]", " ", "*", "/", " ", "x">>

\* x /* [!i] */
LnCodeBlockIns == <<"x", " ", "/", "*", " ", "[", "!", "i", "]", " ", "*", "/">>

\* x /* [!n] --- */
LnCodeBlockSeparator == <<"x", " ", "/", "*", " ", "[", "!", "n", "]", " ", "-", "-", "-", " ", "*", "/">>

\* { /*
LnJsxOpen == <<"{", " ", "/", "*">>

\* */ }
LnJsxClose == <<"*", "/", " ", "}">>

\* { /* [!i] */ }
LnJsxIns == <<"{", " ", "/", "*", " ", "[", "!", "i", "]", " ", "*", "/", " ", "}">>

\* { /* [!i] */ } */
LnJsxInsBlockClose == <<"{", " ", "/", "*", " ", "[", "!", "i", "]", " ", "*", "/", " ", "}", " ", "*", "/">>

\* <!--
LnHtmlOpen == <<"<", "!", "-", "-">>

\* -->
LnHtmlClose == <<"-", "-", ">">>

\* // u
LnContinued == <<"/", "/", " ", "u">>

\* //
LnBareOpener == <<"/", "/">>

\* // ---
LnSeparator == <<"/", "/", " ", "-", "-", "-">>

\* # u
LnHashText == <<"#", " ", "u">>

\* x // [!n] // [!i]
LnCodeChain ==
    <<"x", " ", "/", "/", " ", "[", "!", "n", "]", " ", "/", "/", " ", "[", "!", "i", "]">>

\* // [!i:n]
LnSearchN == <<"/", "/", " ", "[", "!", "i", ":", "n", "]">>

\* // [!i] t /* [!n] */
LnInsBlockNote ==
    <<"/", "/", " ", "[", "!", "i", "]", " ", "t", " ", "/", "*", " ", "[", "!", "n", "]", " ", "*", "/">>

\* x /* [!n] */
LnCodeBlockNote == <<"x", " ", "/", "*", " ", "[", "!", "n", "]", " ", "*", "/">>

\* // [!n:""]
LnSearchEmpty == <<"/", "/", " ", "[", "!", "n", ":", "\"", "\"", "]">>

\* x // [!n:""]
LnCodeSearchEmpty == <<"x", " ", "/", "/", " ", "[", "!", "n", ":", "\"", "\"", "]">>

\* // [!n:/x/]
LnSearchRegex == <<"/", "/", " ", "[", "!", "n", ":", "/", "x", "/", "]">>

\* the longest input of the parser specifications, in lines
MaxLines == 4

\* the most target ranges that a caller of cleanCode puts into a comment
MaxCallerTargets == 2

\* the longest input of unwrapped lines for the cleaner, in lines
MaxCleanLines == 3

\* the longest body of a block comment for the cleaner, in lines
MaxBodyLines == 3

\* the longest input of the resolver specifications, in lines
MaxTargetLines == 4

\* the longest input of the specification of the target search, in lines
MaxSearchLines == 3

\* the longest input of the specification of block comments, in lines
MaxBlockLines == 3

\* the longest input of the specification of nested block comments, in lines
MaxNestedLines == 3

\* the longest input of the specification of continued comments, in lines
MaxContinuedLines == 3

\* the longest input of the specification of the content ranges, in lines
MaxContentLines == 3

\* the longest input of the specification of tags inside contents, in lines
MaxInnerTagLines == 3

\* the longest input of the specification of the match search, in lines
MaxLineSearchLines == 3

\* all sequences over pool of 1..maxLen lines
SeqsUpTo(pool, maxLen) == UNION {[1..n -> pool] : n \in 1..maxLen}

ScannerLinePool == {LnCode, LnNote, LnChain, LnString, LnBadRegex, LnRegex}

IgnoreLinePool == {LnNote, LnCodeNote, LnIgnore, LnIgnore2, LnCodeIgnore, LnIgnore0}

IgnoreNamePool == {LnNote, LnIns, LnString, LnIgnoreN, LnIgnoreNI2, LnIgnoreN0}

CleanLinePool == {LnCode, LnNote, LnCodeNote, LnIns, LnInsText, LnBlockIns}

DocBodyPool == {LnDocBlank, LnDocNote, LnDocInsText, LnDocProse}

BlockBodyPool == {LnBlockBlank, LnBlockNote, LnBlockInsText, LnBlockProse}

TargetLinePool ==
    {LnEmpty, LnCode, LnIns, LnCodeNote, LnRange2, LnRangeBack2, LnRange0, LnCodeRange3}

TargetSearchPool ==
    {LnEmpty, LnTwo, LnSearch, LnCodeSearch, LnBlockSearch, LnSearchBack2, LnCodeSearch2,
     LnSearch0}

BlockLinePool ==
    {LnBlockOpen, LnCodeBlockOpen, LnBlockNote, LnBlockClose, LnBlockCloseCode,
     LnCodeBlockInsCode, LnBlockIns, LnCodeBlockIns, LnCodeBlockSeparator}

NestedLinePool ==
    {LnJsxOpen, LnJsxClose, LnJsxIns, LnJsxInsBlockClose, LnHtmlOpen, LnHtmlClose,
     LnBlockNote}

ContinuedLinePool ==
    {LnNote, LnContinued, LnBareOpener, LnSeparator, LnHashText, LnIns, LnCodeNote, LnChain}

ContentLinePool == {LnCode, LnTwo, LnCodeNote, LnChain, LnCodeChain, LnSearchN, LnBlockIns}

InnerTagPool ==
    {LnNote, LnIgnoreN, LnInsBlockNote, LnBlockOpen, LnBlockInsText, LnCodeBlockNote,
     LnBlockClose}

LineSearchPool ==
    {LnTwo, LnSearch, LnCodeSearch, LnBlockSearch, LnSearchRegex, LnSearchEmpty,
     LnCodeSearchEmpty}

\* a comment made of an opening line, body lines and a closing line,
\* followed by a line of code
WrappedComments(opening, bodyPool, closing) ==
    {<<opening>> \o body \o <<closing, LnCode>> : body \in SeqsUpTo(bodyPool, MaxBodyLines)}

CleanInputs ==
    SeqsUpTo(CleanLinePool, MaxCleanLines)
    \cup WrappedComments(LnDocOpen, DocBodyPool, LnDocClose)
    \cup WrappedComments(LnBlockOpen, BlockBodyPool, LnBlockClose)

\* the values of removeAnnotationContents that callers pass
RemoveAnnotationContentsOptions ==
    {[type |-> "boolean", value |-> FALSE, names |-> {}],
     [type |-> "boolean", value |-> TRUE, names |-> {}],
     [type |-> "function", value |-> FALSE, names |-> {<<"n">>}]}

CleanOptionsPool ==
    {[DefaultCleanOptions EXCEPT !.removeAnnotationContents = option] :
        option \in RemoveAnnotationContentsOptions}

\* the hooks that callers pass as handleRemoveLine and handleEditLine
HookPool == {"none", "handled", "declined"}

HookOptionsPool ==
    {[DefaultCleanOptions EXCEPT !.handleRemoveLine = removeHook,
                                 !.handleEditLine = editHook] :
        removeHook \in HookPool, editHook \in HookPool}

HookLinePool == {LnCode, LnCodeNote, LnIns, LnNote}

RebaseLinePool == {LnCode, LnIns}

\* annotated code that a caller of cleanCode has put together: one comment
\* on a line of its own among lines of code
CallerCode == {<<LnIns, LnCode, LnCode>>, <<LnCode, LnIns, LnCode>>}

\* the target ranges that the caller has given to the comment: up to
\* MaxCallerTargets ranges of full lines
CallerTargetRanges(lines) ==
    SeqsUpTo({createSingleLineRange(l) : l \in 0..(Len(lines) - 1)}, MaxCallerTargets)

\* the comment of the tag on line l with the caller's target ranges
CallerComment(lines, l, targetRanges) ==
    [parseParentComment(lines, TagsOfMatches(MatchAllTags(lines[l + 1]), l, 1).tags[1])
        EXCEPT !.targetRanges = targetRanges]

(***************************************************************************)
(* Specifications                                                          *)
(***************************************************************************)

InitWith(inputs, options) ==
    /\ codeLines \in inputs
    /\ originalCodeLines = codeLines
    /\ cleanOptions \in options
    /\ rangesToBeRemoved = <<>>
    /\ changes = <<>>
    /\ changeIndex = 0
    /\ pc = "scan"
    /\ scanLineIndex = 0
    /\ annotationTags = <<>>
    /\ thrownError = NoError
    /\ tagIndex = 0
    /\ annotationComments = <<>>
    /\ ignoreCountPerTagName = [n \in {} |-> 0]
    /\ tagsIgnoredUntilLineIndex = -1
    /\ previousContentRanges = <<>>
    /\ tagLog = <<>>
    /\ targetLog = <<>>
    /\ lineSearch = NoLineSearch

\* inputs with tags of every query kind, among them a regular expression
\* that does not compile
Init == InitWith(SeqsUpTo(ScannerLinePool, MaxLines), {DefaultCleanOptions})

\* inputs with ignore-tags directives that count lines
InitIgnoreLines == InitWith(SeqsUpTo(IgnoreLinePool, MaxLines), {DefaultCleanOptions})

\* inputs with ignore-tags directives that name tags
InitIgnoreNames == InitWith(SeqsUpTo(IgnoreNamePool, MaxLines), {DefaultCleanOptions})

\* inputs for the cleaner, with every kind of removeAnnotationContents
InitClean == InitWith(CleanInputs, CleanOptionsPool)

\* cleanCode called with annotated code whose target ranges the caller has
\* filled in: the parser has not run, and the comment is the one that
\* parseParentComment makes of the tag
InitCleanCall ==
    /\ codeLines \in CallerCode
    /\ originalCodeLines = codeLines
    /\ cleanOptions = DefaultCleanOptions
    /\ rangesToBeRemoved = <<>>
    /\ changes = <<>>
    /\ changeIndex = 0
    /\ pc = "targeted"
    /\ scanLineIndex = 0
    /\ annotationTags = <<>>
    /\ thrownError = NoError
    /\ tagIndex = 0
    /\ \E l \in 0..(Len(codeLines) - 1) :
           /\ codeLines[l + 1] = LnIns
           /\ \E targetRanges \in CallerTargetRanges(codeLines) :
                  annotationComments = <<CallerComment(codeLines, l, targetRanges)>>
    /\ ignoreCountPerTagName = [n \in {} |-> 0]
    /\ tagsIgnoredUntilLineIndex = -1
    /\ previousContentRanges = <<>>
    /\ tagLog = <<>>
    /\ targetLog = <<>>
    /\ lineSearch = NoLineSearch

\* the pipeline on short inputs, and cleanCode called by itself
InitRebase ==
    \/ InitWith(SeqsUpTo(RebaseLinePool, MaxCleanLines), {DefaultCleanOptions})
    \/ InitCleanCall

\* inputs for the cleaner, with every combination of hooks
InitHooks == InitWith(SeqsUpTo(HookLinePool, MaxCleanLines), HookOptionsPool)

\* inputs with tags that target lines: no search query, with and without a
\* relative target range
InitTargetLines == InitWith(SeqsUpTo(TargetLinePool, MaxTargetLines), {DefaultCleanOptions})

\* inputs with tags that search for their targets
InitTargetSearch == InitWith(SeqsUpTo(TargetSearchPool, MaxSearchLines), {DefaultCleanOptions})

\* inputs with block comments that share their lines with code
InitBlock == InitWith(SeqsUpTo(BlockLinePool, MaxBlockLines), {DefaultCleanOptions})

\* inputs with block comments of several syntaxes inside each other
InitNested == InitWith(SeqsUpTo(NestedLinePool, MaxNestedLines), {DefaultCleanOptions})

\* inputs with single-line comments that go on over the following lines
InitContinued ==
    InitWith(SeqsUpTo(ContinuedLinePool, MaxContinuedLines), {DefaultCleanOptions})

\* inputs with lines that hold code and several annotation comments
InitContent == InitWith(SeqsUpTo(ContentLinePool, MaxContentLines), {DefaultCleanOptions})

\* inputs with tags inside the contents of annotation comments, and with
\* ignore-tags directives that name them
InitInnerTags == InitWith(SeqsUpTo(InnerTagPool, MaxInnerTagLines), {DefaultCleanOptions})

\* inputs with tags that search for their targets, among them tags with an
\* empty quoted search query
InitLineSearch ==
    InitWith(SeqsUpTo(LineSearchPool, MaxLineSearchLines), {DefaultCleanOptions})

Next ==
    \/ ScanLine
    \/ ProcessTag
    \/ FindTargets
    \/ PlanChanges
    \/ ApplyChange

\* the parser followed by calls of findSearchQueryMatchesInLine that run
\* statement by statement
NextLineSearch ==
    \/ ScanLine
    \/ ProcessTag
    \/ StartLineSearch
    \/ PushMatch
    \/ LeaveContentRange

Spec == Init /\ [][Next]_vars

SpecIgnoreLines == InitIgnoreLines /\ [][Next]_vars

SpecIgnoreNames == InitIgnoreNames /\ [][Next]_vars

SpecClean == InitClean /\ [][Next]_vars

SpecHooks == InitHooks /\ [][Next]_vars

SpecRebase == InitRebase /\ [][Next]_vars

SpecTargetLines == InitTargetLines /\ [][Next]_vars

SpecTargetSearch == InitTargetSearch /\ [][Next]_vars

SpecBlock == InitBlock /\ [][Next]_vars

SpecNested == InitNested /\ [][Next]_vars

SpecContinued == InitContinued /\ [][Next]_vars

SpecContent == InitContent /\ [][Next]_vars

SpecInnerTags == InitInnerTags /\ [][Next]_vars

\* The match search runs to its end if it has one: nothing but the loop
\* itself decides whether its next statement is executed
SpecLineSearch == InitLineSearch /\ [][NextLineSearch]_vars /\ WF_vars(NextLineSearch)

(***************************************************************************)
(* Properties of the parser                                                *)
(***************************************************************************)

\* the tags that the orchestrator has processed so far, by their index
ProcessedTags == 1..Len(tagLog)

\* the scanner's match of a tag, as the tag it would push
TagOfScannerMatch(m, lineIndex) ==
    TagOfMatch(m, lineIndex, parseTargetSearchQuery(m.hasQuery, m.rawTargetSearchQuery))

\* C1: for every sequence of code lines, parseAnnotationComments returns
\* normally and never throws, also when a regular expression search query
\* does not compile.
C1_ParserNeverThrows == pc # "thrown"

\* C2: once the scanner is done, every tag whose regular expression query
\* does not compile has produced one error message with the 1-based line
\* number and the query text and is left out of the returned tags, and every
\* other tag of the input is among the returned tags.
C2_InvalidRegExpIsReported ==
    pc # "scan" =>
        /\ pc # "thrown"
        /\ \A l \in 1..Len(originalCodeLines) :
               LET matches == MatchAllTags(originalCodeLines[l])
               IN \A k \in 1..Len(matches) :
                      LET query == parseTargetSearchQuery(matches[k].hasQuery,
                                                          matches[k].rawTargetSearchQuery)
                      IN IF query.threw
                         THEN /\ \E e \in 1..Len(errorMessages) :
                                     /\ errorMessages[e].line = l
                                     /\ errorMessages[e].query = query.source
                              /\ \A t \in 1..Len(annotationTags) :
                                     annotationTags[t].range
                                         # Range(l - 1, matches[k].index, l - 1, matches[k].end)
                         ELSE \E t \in 1..Len(annotationTags) :
                                  annotationTags[t] = TagOfScannerMatch(matches[k], l - 1)

\* a processed ignore-tags directive that was applied and counts lines
IsLineDirective(i) ==
    /\ tagLog[i].outcome = "directive"
    /\ annotationTags[i].targetSearchQuery.kind # "string"

\* the lines D+1 .. D+N that the line directive at index i covers
LinesIgnoredBy(i) ==
    LET tag == annotationTags[i]
    IN (tag.range.start.line + 1)..(tag.range.start.line + IgnoreRangeOf(tag))

\* a processed tag that produced no comment and changed no ignore state
IsSuppressed(j) == tagLog[j].outcome \in {"ignoredByLine", "noComment", "inPreviousContent"}

\* C3: an ignore-tags directive without a search query on its own line D,
\* with N its relative range or 1, suppresses every tag that starts on one of
\* the lines D+1 .. D+N, and no tag is suppressed by line that does not start
\* in such a window.
C3_LineDirectiveWindow ==
    /\ \A i \in ProcessedTags :
           IsLineDirective(i) =>
               \A j \in ProcessedTags :
                   (j > i /\ annotationTags[j].range.start.line \in LinesIgnoredBy(i))
                       => IsSuppressed(j)
    /\ \A j \in ProcessedTags :
           tagLog[j].outcome = "ignoredByLine" =>
               \E i \in 1..(j - 1) :
                   /\ IsLineDirective(i)
                   /\ annotationTags[j].range.start.line \in LinesIgnoredBy(i)

\* C3 witness: a directive with the explicit range 2 suppressed a tag on each
\* of the two lines after it, and the tag on the third line was accepted
C3_Witness ==
    \E i \in ProcessedTags :
        /\ IsLineDirective(i)
        /\ annotationTags[i].hasRelativeTargetRange
        /\ annotationTags[i].relativeTargetRange = 2
        /\ \E j1, j2, j3 \in ProcessedTags :
               LET D == annotationTags[i].range.start.line
               IN /\ annotationTags[j1].range.start.line = D + 1
                  /\ tagLog[j1].outcome = "ignoredByLine"
                  /\ annotationTags[j2].range.start.line = D + 2
                  /\ tagLog[j2].outcome = "ignoredByLine"
                  /\ annotationTags[j3].range.start.line = D + 3
                  /\ tagLog[j3].outcome = "added"

\* a processed ignore-tags directive that was applied to a list of names
IsNameDirective(i) ==
    /\ tagLog[i].outcome = "directive"
    /\ annotationTags[i].targetSearchQuery.kind = "string"

\* The indices after i of the scanned tags called name that reach the check
\* of the per-name counters: those that are neither inside the content of
\* the previous comment nor ignored by line
RECURSIVE OccurrencesAfter(_, _)
OccurrencesAfter(i, name) ==
    IF i >= Len(tagLog) THEN <<>>
    ELSE IF /\ annotationTags[i + 1].name = name
            /\ tagLog[i + 1].outcome \notin {"inPreviousContent", "ignoredByLine"}
    THEN <<i + 1>> \o OccurrencesAfter(i + 1, name)
    ELSE OccurrencesAfter(i + 1, name)

\* between the tags i and j, no applied directive names the tag again
NoNameDirectiveBetween(i, j, name) ==
    \A d \in (i + 1)..(j - 1) :
        IsNameDirective(d) => name \notin TargetTagNames(annotationTags[d].targetSearchQuery.source)

\* C4: an ignore-tags directive with a list of names and M its relative
\* range or 1 suppresses exactly the next M occurrences of each named tag:
\* each of them yields no comment, and the occurrence after them is not
\* suppressed by the counter any more.
C4_NameDirectiveCount ==
    pc \notin {"scan", "tags"} =>
        \A i \in ProcessedTags :
            IsNameDirective(i) =>
                \A name \in TargetTagNames(annotationTags[i].targetSearchQuery.source) :
                    LET M == IgnoreRangeOf(annotationTags[i])
                        occurrences == OccurrencesAfter(i, name)
                    IN \A k \in 1..Len(occurrences) :
                           NoNameDirectiveBetween(i, occurrences[k], name) =>
                               IF k <= M
                               THEN tagLog[occurrences[k]].outcome # "added"
                               ELSE tagLog[occurrences[k]].outcome # "ignoredByName"

\* C5: a tag that is suppressed by the line cutoff or by a per-name counter
\* never had a parent-comment lookup attempted for it.
C5_SuppressedBeforeLookup ==
    \A j \in ProcessedTags :
        tagLog[j].outcome \in {"ignoredByLine", "ignoredByName"} => ~tagLog[j].lookedUp

\* C6: every ignore-tags directive that sits in a valid comment and reaches
\* its own handling is returned as an annotation comment with no contents and
\* no target ranges.
C6_DirectiveIsEmitted ==
    \A i \in ProcessedTags :
        tagLog[i].outcome \in {"directive", "directiveNotOnOwnLine"} =>
            \E c \in 1..Len(annotationComments) :
                /\ annotationComments[c].tag = annotationTags[i]
                /\ annotationComments[c].contents = <<>>
                /\ annotationComments[c].targetRanges = <<>>

\* the step of ProcessTag handles a directive that is invalid: it does not
\* have its line to itself, or its explicit relative range is not positive
InvalidDirectiveStep ==
    /\ pc = "tags"
    /\ tagIndex < Len(annotationTags)
    /\ LET tag == annotationTags[tagIndex + 1]
           r == ProcessTagResult(codeLines, tag, ignoreCountPerTagName,
                                 tagsIgnoredUntilLineIndex, previousContentRanges)
       IN \/ r.outcome = "directiveNotOnOwnLine"
          \/ r.outcome = "directive" /\ tag.hasRelativeTargetRange
             /\ tag.relativeTargetRange <= 0

\* C7: handling an invalid ignore-tags directive adds a diagnostic that names
\* its line and leaves the line cutoff and the per-name counters unchanged.
C7_InvalidDirectiveHasNoEffect ==
    [][InvalidDirectiveStep =>
           /\ \E e \in 1..Len(errorMessages) :
                  errorMessages[e].line = annotationTags[tagIndex + 1].range.start.line + 1
           /\ tagsIgnoredUntilLineIndex' = tagsIgnoredUntilLineIndex
           /\ ignoreCountPerTagName' = ignoreCountPerTagName]_vars

(***************************************************************************)
(* Properties of the cleaner                                               *)
(***************************************************************************)

\* the columns of a range in the code as it was passed in
StartColumnOf(range) == IF range.start.column = Undef THEN 0 ELSE range.start.column

EndColumnOf(range) ==
    IF range.end.column = Undef THEN Len(originalCodeLines[range.end.line + 1])
    ELSE range.end.column

\* the character at column c of line l lies inside the range
Covers(range, l, c) ==
    /\ range.start.line < l \/ (range.start.line = l /\ StartColumnOf(range) <= c)
    /\ range.end.line > l \/ (range.end.line = l /\ c < EndColumnOf(range))

\* the range holds line l from its first to its last column
CoversLine(range, l) ==
    /\ range.start.line < l \/ (range.start.line = l /\ StartColumnOf(range) = 0)
    /\ \/ range.end.line > l
       \/ range.end.line = l /\ EndColumnOf(range) >= Len(originalCodeLines[l + 1])

\* the characters of the original code that lie inside the range
CharactersOf(range) ==
    UNION {{<<l, c>> : c \in {k \in 0..(Len(originalCodeLines[l + 1]) - 1) :
                                  Covers(range, l, k)}} :
              l \in 0..(Len(originalCodeLines) - 1)}

MergedRemovals == mergeIntersectingOrAdjacentRanges(rangesToBeRemoved)

IsRemoved(l, c) == \E m \in 1..Len(MergedRemovals) : Covers(MergedRemovals[m], l, c)

IsRemovedLine(l) == \E m \in 1..Len(MergedRemovals) : CoversLine(MergedRemovals[m], l)

\* the characters of line l, from column c on, that no removal holds
RECURSIVE KeptCharacters(_, _)
KeptCharacters(l, c) ==
    IF c >= Len(originalCodeLines[l + 1]) THEN <<>>
    ELSE (IF IsRemoved(l, c) THEN <<>> ELSE <<originalCodeLines[l + 1][c + 1]>>)
         \o KeptCharacters(l, c + 1)

\* the original lines from line l on, with the merged removals deleted
RECURSIVE KeptLines(_)
KeptLines(l) ==
    IF l >= Len(originalCodeLines) THEN <<>>
    ELSE (IF IsRemovedLine(l) THEN <<>> ELSE <<KeptCharacters(l, 0)>>) \o KeptLines(l + 1)

\* the end of the text that a change touches on its line, in columns
ChangeEndColumn(change) ==
    IF change.editType = "removeLine" THEN Len(originalCodeLines[change.lineIndex + 1])
    ELSE change.endColumn

\* C8: while cleanCode applies its changes, every change that is still to be
\* applied finds the lines before its line, and its own line up to the end
\* of the change, as they were in the original code; when all changes are
\* applied, the lines equal the original lines with exactly the merged
\* removal ranges deleted.
C8_ChangesAppliedLastToFirst ==
    /\ pc = "cleaning" =>
           \A k \in (changeIndex + 1)..Len(changes) :
               LET L == changes[k].lineIndex
               IN /\ L < Len(codeLines)
                  /\ SubSeq(codeLines, 1, L) = SubSeq(originalCodeLines, 1, L)
                  /\ Slice(codeLines[L + 1], 0, ChangeEndColumn(changes[k]))
                         = Slice(originalCodeLines[L + 1], 0, ChangeEndColumn(changes[k]))
    /\ pc = "cleaned" => codeLines = KeptLines(0)

\* C8 witness: cleanCode has applied at least three changes, among them a
\* removed line and an edited line, after a change on a later line
C8_Witness ==
    /\ pc = "cleaned"
    /\ Len(changes) >= 3
    /\ \E a, b \in 1..Len(changes) :
           /\ changes[a].editType = "removeLine"
           /\ changes[b].editType = "editLine"
    /\ changes[1].lineIndex > changes[Len(changes)].lineIndex
    /\ codeLines # originalCodeLines

\* the removals planned for the annotations, without the parent comments
AnnotationRemovals == SubSeq(rangesToBeRemoved, 1, Len(annotationComments))

\* the whole of the comment's commentRange is removed
WrapperIsRemoved(comment) ==
    /\ \A lc \in CharactersOf(comment.commentRange) : IsRemoved(lc[1], lc[2])
    /\ \A l \in comment.commentRange.start.line..comment.commentRange.end.line :
           CoversLine(comment.commentRange, l) => IsRemovedLine(l)

\* nothing but whitespace remains in the comment's inner range when the
\* removals planned for the annotations are taken out
OnlyWhitespaceRemains(comment) ==
    \A lc \in CharactersOf(comment.commentInnerRange) :
        \/ IsWhitespace(originalCodeLines[lc[1] + 1][lc[2] + 1])
        \/ \E r \in 1..Len(AnnotationRemovals) : Covers(AnnotationRemovals[r], lc[1], lc[2])

\* the comment is a doc comment: it opens with /**
IsDocComment(comment) ==
    LET line == originalCodeLines[comment.commentRange.start.line + 1]
        first == SearchNonWhitespaceFrom(line, StartColumnOf(comment.commentRange))
    IN first > -1 /\ StartsWithAt(line, <<"/", "*", "*">>, first)

\* the character is the * that starts a continuation line of a doc comment
IsContinuationMarker(comment, l, c) ==
    /\ IsDocComment(comment)
    /\ originalCodeLines[l + 1][c + 1] = "*"
    /\ IsBlank(Slice(originalCodeLines[l + 1], 0, c))
    /\ continuationLineStartLength(originalCodeLines[l + 1]) > 0

\* the annotation comments that share the parent comment
AnnotationsOf(comment) ==
    {a \in 1..Len(annotationComments) :
        rangesAreEqual(annotationComments[a].commentRange, comment.commentRange)}

\* the parent comment holds nothing but annotations that are removed as a
\* whole: each of its characters is whitespace, a continuation marker, or
\* part of the tag or the content of such an annotation
HoldsOnlyRemovedAnnotations(comment) ==
    /\ \A a \in AnnotationsOf(comment) :
           removeEntireAnnotation(cleanOptions, annotationComments[a])
    /\ \A lc \in CharactersOf(comment.commentInnerRange) :
           \/ IsWhitespace(originalCodeLines[lc[1] + 1][lc[2] + 1])
           \/ IsContinuationMarker(comment, lc[1], lc[2])
           \/ \E a \in AnnotationsOf(comment) :
                  \/ Covers(annotationComments[a].tag.range, lc[1], lc[2])
                  \/ \E t \in 1..Len(annotationComments[a].contentRanges) :
                         Covers(annotationComments[a].contentRanges[t], lc[1], lc[2])

\* C9: cleanCode removes the whole wrapper of a parent comment if and only
\* if nothing but whitespace remains in its inner range after the removals
\* planned for the annotations, and a comment that held only annotations
\* does not stay behind as an empty comment.
C9_EmptyCommentIsRemoved ==
    pc \in {"cleaning", "cleaned"} =>
        \A k \in 1..Len(annotationComments) :
            LET comment == annotationComments[k]
            IN /\ WrapperIsRemoved(comment) <=> OnlyWhitespaceRemains(comment)
               /\ HoldsOnlyRemovedAnnotations(comment) => WrapperIsRemoved(comment)

ResolvedComments == IF pc = "targeted" THEN 1..Len(annotationComments) ELSE {}

\* the character at column c of line l belongs to an annotation comment
InAnnotationComment(l, c) ==
    \E k \in 1..Len(annotationComments) : Covers(annotationComments[k].commentRange, l, c)

\* line l has non-whitespace content outside of annotation comments
HasOwnContent(l) ==
    \E c \in 0..(Len(originalCodeLines[l + 1]) - 1) :
        /\ ~IsWhitespace(originalCodeLines[l + 1][c + 1])
        /\ ~InAnnotationComment(l, c)

\* line l is an annotation-comment line: it lies in an annotation comment
\* from its first to its last column
IsAnnotationCommentLine(l) ==
    /\ \E k \in 1..Len(annotationComments) :
           /\ annotationComments[k].commentRange.start.line <= l
           /\ l <= annotationComments[k].commentRange.end.line
    /\ \A c \in 0..(Len(originalCodeLines[l + 1]) - 1) : InAnnotationComment(l, c)

LineIndices == 0..(Len(originalCodeLines) - 1)

\* the tag has neither a search query nor a relative target range
IsPlainTag(tag) == tag.targetSearchQuery.kind = "undefined" /\ ~tag.hasRelativeTargetRange

\* the lines that the targets of a comment lie on, and whether they are
\* all ranges of full lines
TargetLinesOf(comment) ==
    {comment.targetRanges[t].start.line : t \in 1..Len(comment.targetRanges)}

TargetsAreFullLines(comment) ==
    \A t \in 1..Len(comment.targetRanges) :
        comment.targetRanges[t] = Range(comment.targetRanges[t].start.line, Undef,
                                        comment.targetRanges[t].start.line, Undef)

\* the nearest line of a set below or above line l, as a set of 0 or 1 lines
NearestBelow(l, candidates) ==
    {m \in candidates : m > l /\ \A o \in candidates : o > l => m <= o}

NearestAbove(l, candidates) ==
    {m \in candidates : m < l /\ \A o \in candidates : o < l => m >= o}

\* the non-empty lines that are not annotation-comment lines
NonEmptyCodeLines == {l \in LineIndices : HasOwnContent(l)}

\* the lines that are not annotation-comment lines, empty or not
CodeLines == {l \in LineIndices : ~IsAnnotationCommentLine(l)}

\* C14 as stated: a tag with neither search query nor relative range targets
\* the comment's own line if it has content outside annotation comments,
\* otherwise the nearest non-empty line below that is not an
\* annotation-comment line, otherwise the nearest such line above, otherwise
\* nothing.
C14_NearestNonEmptyLine ==
    \A k \in ResolvedComments :
        LET comment == annotationComments[k]
            own == comment.commentRange.start.line
        IN IsPlainTag(comment.tag) =>
               /\ Len(comment.targetRanges) <= 1
               /\ TargetsAreFullLines(comment)
               /\ TargetLinesOf(comment) =
                      IF HasOwnContent(own) THEN {own}
                      ELSE IF NearestBelow(own, NonEmptyCodeLines) # {}
                      THEN NearestBelow(own, NonEmptyCodeLines)
                      ELSE NearestAbove(own, NonEmptyCodeLines)

\* the nearest line in one direction that is not an annotation-comment
\* line, provided that it has content
AdjacentTarget(nearest) == {l \in nearest : HasOwnContent(l)}

\* C14 amended: a tag with neither search query nor relative range targets
\* the comment's own line if it has content outside annotation comments;
\* otherwise the nearest line below that is not an annotation-comment line,
\* if that line is not empty; otherwise the nearest line above that is not
\* an annotation-comment line, if that line is not empty; otherwise nothing.
\* An empty line next to the comment ends the search in its direction.
C14_AdjacentLine ==
    \A k \in ResolvedComments :
        LET comment == annotationComments[k]
            own == comment.commentRange.start.line
        IN IsPlainTag(comment.tag) =>
               /\ Len(comment.targetRanges) <= 1
               /\ TargetsAreFullLines(comment)
               /\ TargetLinesOf(comment) =
                      IF HasOwnContent(own) THEN {own}
                      ELSE IF AdjacentTarget(NearestBelow(own, CodeLines)) # {}
                      THEN AdjacentTarget(NearestBelow(own, CodeLines))
                      ELSE AdjacentTarget(NearestAbove(own, CodeLines))

\* C14 witness: a comment alone on its line, with an empty line below and
\* further down a line of code, targets the line of code above it
C14_Witness ==
    \E k \in ResolvedComments :
        LET comment == annotationComments[k]
            own == comment.commentRange.start.line
        IN /\ IsPlainTag(comment.tag)
           /\ ~HasOwnContent(own)
           /\ NearestBelow(own, CodeLines) # {}
           /\ AdjacentTarget(NearestBelow(own, CodeLines)) = {}
           /\ NearestBelow(own, NonEmptyCodeLines) # {}
           /\ own - 1 \in NonEmptyCodeLines
           /\ TargetLinesOf(comment) = {own - 1}

\* the tag has a relative target range and no search query
IsRangeTag(tag) == tag.targetSearchQuery.kind = "undefined" /\ tag.hasRelativeTargetRange

Sign(n) == IF n < 0 THEN -1 ELSE 1

\* the first count lines of a set, walking from line l in the direction of
\* step and starting with l itself
FirstLines(l, step, count, candidates) ==
    {m \in candidates :
        /\ (m - l) * step >= 0
        /\ Cardinality({o \in candidates : (o - l) * step >= 0 /\ (m - o) * step >= 0})
               <= count}

\* the lines with at least one character outside of annotation comments
LinesWithContent ==
    {l \in LineIndices :
        \E c \in 0..(Len(originalCodeLines[l + 1]) - 1) : ~InAnnotationComment(l, c)}

\* C15 as stated: a tag without search query and with a relative range of
\* magnitude K > 0 and sign S targets the first K lines, walking from the
\* comment's own line in direction S, that have at least some content outside
\* annotation comments, or fewer if the file ends first.
C15_LinesWithContent ==
    \A k \in ResolvedComments :
        LET comment == annotationComments[k]
            own == comment.commentRange.start.line
            range == comment.tag.relativeTargetRange
        IN IsRangeTag(comment.tag) /\ range # 0 =>
               /\ TargetsAreFullLines(comment)
               /\ Len(comment.targetRanges) = Cardinality(TargetLinesOf(comment))
               /\ TargetLinesOf(comment) =
                      FirstLines(own, Sign(range), Abs(range), LinesWithContent)

\* C15 amended: a tag without search query and with a relative range of
\* magnitude K > 0 and sign S targets the first K lines, walking from the
\* comment's own line in direction S, that are not wholly occupied by
\* annotation comments, empty lines included, or fewer if the file ends first.
C15_LinesOutsideComments ==
    \A k \in ResolvedComments :
        LET comment == annotationComments[k]
            own == comment.commentRange.start.line
            range == comment.tag.relativeTargetRange
        IN IsRangeTag(comment.tag) /\ range # 0 =>
               /\ TargetsAreFullLines(comment)
               /\ Len(comment.targetRanges) = Cardinality(TargetLinesOf(comment))
               /\ TargetLinesOf(comment) =
                      FirstLines(own, Sign(range), Abs(range), CodeLines)

\* C15 witness: a comment after code on line 0 with range 3 targets an
\* empty line and skips an annotation-comment line on its way to line 3
C15_Witness ==
    \E k \in ResolvedComments :
        LET comment == annotationComments[k]
        IN /\ IsRangeTag(comment.tag)
           /\ comment.tag.relativeTargetRange = 3
           /\ comment.commentRange.start.line = 0
           /\ HasOwnContent(0)
           /\ TargetLinesOf(comment) = {0, 2, 3}
           /\ IsAnnotationCommentLine(1)
           /\ \E l \in {2, 3} : Len(originalCodeLines[l + 1]) = 0

\* C15 witness of the example: a comment after code on line 0 with range 3
\* targets lines 0 to 2
C15_WitnessExample ==
    \E k \in ResolvedComments :
        LET comment == annotationComments[k]
        IN /\ IsRangeTag(comment.tag)
           /\ comment.tag.relativeTargetRange = 3
           /\ comment.commentRange.start.line = 0
           /\ HasOwnContent(0)
           /\ TargetLinesOf(comment) = {0, 1, 2}

\* the number of targets that a tag asks for: the absolute value of its
\* relative target range, or 1 without one
RequestedTargets(tag) ==
    IF tag.hasRelativeTargetRange THEN Abs(tag.relativeTargetRange) ELSE 1

\* C19: a comment never has more target ranges than the absolute value of
\* the relative range of its tag, or than 1 if the tag has none; a tag with
\* the relative range 0 makes a comment without target ranges.
C19_AtMostRequestedTargets ==
    \A k \in ResolvedComments :
        Len(annotationComments[k].targetRanges) <= RequestedTargets(annotationComments[k].tag)

\* C19 witness: a tag with the relative range 0 was accepted and its comment
\* has no target, and another comment took one of the two matches of a line
C19_Witness ==
    /\ \E k \in ResolvedComments :
           /\ annotationComments[k].tag.hasRelativeTargetRange
           /\ annotationComments[k].tag.relativeTargetRange = 0
           /\ annotationComments[k].targetRanges = <<>>
    /\ \E k \in ResolvedComments :
           LET comment == annotationComments[k]
           IN /\ comment.tag.targetSearchQuery.kind # "undefined"
              /\ ~comment.tag.hasRelativeTargetRange
              /\ Len(comment.targetRanges) = 1
              /\ Len(findSearchQueryMatchesInLine(codeLines, annotationComments,
                                                  comment.targetRanges[1].start.line,
                                                  comment.tag.targetSearchQuery)) > 1

\* the tag has a search query and no relative target range
IsSearchTag(tag) == tag.targetSearchQuery.kind # "undefined" /\ ~tag.hasRelativeTargetRange

\* the line of the comment has non-whitespace content outside of annotation
\* comments before the column where the comment starts
HasContentBefore(comment) ==
    \E c \in 0..(Len(originalCodeLines[comment.commentRange.start.line + 1]) - 1) :
        /\ c < comment.commentRange.start.column
        /\ ~IsWhitespace(originalCodeLines[comment.commentRange.start.line + 1][c + 1])
        /\ ~InAnnotationComment(comment.commentRange.start.line, c)

\* C16: for a tag with a search query and no relative range whose comment
\* shares its line with other content, the search goes backward when that
\* content lies before the comment and forward otherwise.
C16_DirectionFromContentPosition ==
    \A k \in ResolvedComments :
        LET comment == annotationComments[k]
        IN IsSearchTag(comment.tag) /\ HasOwnContent(comment.commentRange.start.line) =>
               IF HasContentBefore(comment)
               THEN targetLog[k].relativeTargetRange < 0
               ELSE targetLog[k].relativeTargetRange > 0

\* the part of C16 that the resolver keeps: with content only behind the
\* comment the search goes forward
C16_ForwardWithContentBehind ==
    \A k \in ResolvedComments :
        LET comment == annotationComments[k]
        IN /\ IsSearchTag(comment.tag)
           /\ HasOwnContent(comment.commentRange.start.line)
           /\ ~HasContentBefore(comment)
           => targetLog[k].relativeTargetRange > 0

\* the target range lies behind the end of the comment
LiesBehindComment(range, comment) ==
    \/ range.start.line > comment.commentRange.end.line
    \/ /\ range.start.line = comment.commentRange.end.line
       /\ StartColumnOf(range) >= EndColumnOf(comment.commentRange)

\* the target range lies before the start of the comment
LiesBeforeComment(range, comment) ==
    \/ range.end.line < comment.commentRange.start.line
    \/ /\ range.end.line = comment.commentRange.start.line
       /\ EndColumnOf(range) <= StartColumnOf(comment.commentRange)

\* C17: the scan for a search query starts at the boundary of the comment,
\* its end when searching forward and its start when searching backward, so
\* that no target is found in the text of the comment's own line on the
\* other side of that column.
C17_ScanStartsAtCommentBoundary ==
    \A k \in ResolvedComments :
        LET comment == annotationComments[k]
        IN comment.tag.targetSearchQuery.kind # "undefined" =>
               \A t \in 1..Len(comment.targetRanges) :
                   IF targetLog[k].relativeTargetRange > 0
                   THEN LiesBehindComment(comment.targetRanges[t], comment)
                   ELSE LiesBeforeComment(comment.targetRanges[t], comment)

\* C17 for tags that state their direction: the failure does not depend on
\* how the direction is inferred
C17_ScanStartsAtCommentBoundaryGivenRange ==
    \A k \in ResolvedComments :
        LET comment == annotationComments[k]
        IN /\ comment.tag.targetSearchQuery.kind # "undefined"
           /\ comment.tag.hasRelativeTargetRange
           => \A t \in 1..Len(comment.targetRanges) :
                  IF targetLog[k].relativeTargetRange > 0
                  THEN LiesBehindComment(comment.targetRanges[t], comment)
                  ELSE LiesBeforeComment(comment.targetRanges[t], comment)

\* what the resolver keeps of C17: the scan starts on the line of the comment
\* and no target lies on a line on the other side of it
C17_ScanStartsAtCommentLine ==
    \A k \in ResolvedComments :
        LET comment == annotationComments[k]
        IN comment.tag.targetSearchQuery.kind # "undefined" =>
               \A t \in 1..Len(comment.targetRanges) :
                   IF targetLog[k].relativeTargetRange > 0
                   THEN comment.targetRanges[t].start.line >= comment.commentRange.start.line
                   ELSE comment.targetRanges[t].end.line <= comment.commentRange.start.line

\* range a starts before range b in the source, or where b starts
StartsNoLaterThan(a, b) ==
    \/ a.start.line < b.start.line
    \/ a.start.line = b.start.line /\ StartColumnOf(a) <= StartColumnOf(b)

\* C18: when the direction of a comment's target search is backward, by a
\* negative relative range that was given or inferred, the target ranges of
\* the comment end up in ascending source order.
C18_BackwardTargetsAscend ==
    \A k \in ResolvedComments :
        targetLog[k].hasRelativeTargetRange /\ targetLog[k].relativeTargetRange < 0 =>
            \A i, j \in 1..Len(annotationComments[k].targetRanges) :
                i < j => StartsNoLaterThan(annotationComments[k].targetRanges[i],
                                           annotationComments[k].targetRanges[j])

\* what the resolver does instead: the target ranges of a backward search
\* end up in descending source order
C18_BackwardTargetsDescend ==
    \A k \in ResolvedComments :
        targetLog[k].hasRelativeTargetRange /\ targetLog[k].relativeTargetRange < 0 =>
            \A i, j \in 1..Len(annotationComments[k].targetRanges) :
                i < j => StartsNoLaterThan(annotationComments[k].targetRanges[j],
                                           annotationComments[k].targetRanges[i])

(***************************************************************************)
(* Properties of chained single-line comments                              *)
(***************************************************************************)

\* the comment syntax in front of the tag of a comment that lies on one line
SingleLineSyntaxOf(comment) ==
    Trim(Slice(originalCodeLines[comment.tag.range.start.line + 1],
               StartColumnOf(comment.commentRange), comment.tag.range.start.column))

\* comments x and y are chained: both are single-line comments of the same
\* syntax with their tags on one line, and the tag of y is the next tag
\* opening sequence behind the tag of x
IsChainedPair(x, y) ==
    /\ x.commentRange.end.line = x.tag.range.start.line
    /\ y.tag.range.start.line = x.tag.range.start.line
    /\ x.tag.range.end.column <= y.tag.range.start.column
    /\ \E i \in 1..Len(singleLineCommentSyntaxes) :
           /\ SingleLineSyntaxOf(x) = singleLineCommentSyntaxes[i]
           /\ SingleLineSyntaxOf(y) = singleLineCommentSyntaxes[i]
    /\ ~\E c \in x.tag.range.end.column..(y.tag.range.start.column - 1) :
           StartsWithAt(originalCodeLines[x.tag.range.start.line + 1], <<"[", "!">>, c)

\* C20: of two chained single-line annotation comments on one line, the
\* comment range of the first ends at exactly the column where the comment
\* range of the second starts: they share no character and leave no gap.
C20_ChainedRangesMeet ==
    \A i, j \in 1..Len(annotationComments) :
        IsChainedPair(annotationComments[i], annotationComments[j]) =>
            /\ annotationComments[i].commentRange.end.column # Undef
            /\ annotationComments[j].commentRange.start.column # Undef
            /\ annotationComments[i].commentRange.end.column =
                   annotationComments[j].commentRange.start.column
            /\ annotationComments[j].commentRange.start.line =
                   annotationComments[i].commentRange.end.line

\* C20 witness: two chained comments have been parsed, and the column where
\* they meet lies between their tags
C20_Witness ==
    \E i, j \in 1..Len(annotationComments) :
        /\ IsChainedPair(annotationComments[i], annotationComments[j])
        /\ annotationComments[i].tag.range.end.column
               <= annotationComments[i].commentRange.end.column
        /\ annotationComments[j].commentRange.start.column
               < annotationComments[j].tag.range.start.column

(***************************************************************************)
(* Properties of the cleaner's hooks and target updates                    *)
(***************************************************************************)

\* the change that the next iteration of the cleaner applies
NextChange == changes[changeIndex + 1]

\* the cleaner is about to apply a change of the given type
Applies(editType) ==
    /\ pc = "cleaning"
    /\ changeIndex < Len(changes)
    /\ NextChange.editType = editType

\* the code with line l taken out
WithoutLine(lines, l) == SubSeq(lines, 1, l) \o SubSeq(lines, l + 2, Len(lines))

\* the code with the columns from startColumn to endColumn of line l replaced
WithEditedLine(lines, l, startColumn, endColumn, newText) ==
    [m \in 1..Len(lines) |->
        IF m = l + 1
        THEN SubSeq(lines[m], 1, startColumn) \o newText
             \o SubSeq(lines[m], endColumn + 1, Len(lines[m]))
        ELSE lines[m]]

\* C13: if the hook of an edit, handleRemoveLine or handleEditLine, returns a
\* truthy value, cleanCode leaves codeLines alone for that edit; if there is
\* no hook or it returns a falsy value, cleanCode performs the edit on
\* codeLines.
C13_HooksDecideEdits ==
    [][/\ Applies("removeLine") =>
              codeLines' = IF cleanOptions.handleRemoveLine = "handled" THEN codeLines
                           ELSE WithoutLine(codeLines, NextChange.lineIndex)
       /\ Applies("editLine") =>
              codeLines' = IF cleanOptions.handleEditLine = "handled" THEN codeLines
                           ELSE WithEditedLine(codeLines, NextChange.lineIndex,
                                               NextChange.startColumn,
                                               NextChange.endColumn, NextChange.newText)]_vars

\* C13 witness: with a handleRemoveLine hook that handles and a
\* handleEditLine hook that declines, the cleaner has gone through a line
\* removal and a line edit, and the code has all its lines but not all its
\* text
C13_Witness ==
    /\ pc = "cleaned"
    /\ cleanOptions.handleRemoveLine = "handled"
    /\ cleanOptions.handleEditLine = "declined"
    /\ \E c \in 1..Len(changes) : changes[c].editType = "removeLine"
    /\ \E c \in 1..Len(changes) : changes[c].editType = "editLine"
    /\ Len(codeLines) = Len(originalCodeLines)
    /\ codeLines # originalCodeLines

\* the locations of the target ranges of all comments, as a function from
\* the comment, the target and the end of the range
TargetLocation(comments, k, t, prop) ==
    IF prop = "start" THEN comments[k].targetRanges[t].start
    ELSE comments[k].targetRanges[t].end

\* location as C12 expects it after the edit of the columns from
\* startColumn to endColumn of line l into a text of length n
ShiftedByEdit(location, l, startColumn, endColumn, n) ==
    IF location.line = l /\ location.column # Undef /\ location.column >= startColumn
    THEN [location EXCEPT !.column = @ + (n - (endColumn - startColumn))]
    ELSE location

\* C12: with updateTargetRanges enabled, after an edit on line L that
\* replaces the columns [s, e) by a text of length n, every location of a
\* target range on L whose column is at or after s is shifted by n - (e - s),
\* and every other location of a target range is unchanged.
C12_EditShiftsLocationsFromStartColumn ==
    [][Applies("editLine") /\ cleanOptions.updateTargetRanges =>
           /\ Len(annotationComments') = Len(annotationComments)
           /\ \A k \in 1..Len(annotationComments) :
                  /\ Len(annotationComments'[k].targetRanges) =
                         Len(annotationComments[k].targetRanges)
                  /\ \A t \in 1..Len(annotationComments[k].targetRanges) :
                         \A prop \in {"start", "end"} :
                             TargetLocation(annotationComments', k, t, prop) =
                                 ShiftedByEdit(TargetLocation(annotationComments, k, t, prop),
                                               NextChange.lineIndex,
                                               NextChange.startColumn,
                                               NextChange.endColumn,
                                               Len(NextChange.newText))]_vars

\* C12 witness: the last change was an edit of a line with a target range,
\* and it has moved the start of that range to column 0 and has left its
\* end, which has no column, alone
C12_Witness ==
    /\ pc \in {"cleaning", "cleaned"}
    /\ changeIndex > 0
    /\ changes[changeIndex].editType = "editLine"
    /\ cleanOptions.updateTargetRanges
    /\ \E k \in 1..Len(annotationComments) :
           \E t \in 1..Len(annotationComments[k].targetRanges) :
               /\ annotationComments[k].targetRanges[t].start.line = changes[changeIndex].lineIndex
               /\ annotationComments[k].targetRanges[t].start.column = 0
               /\ annotationComments[k].targetRanges[t].end.column = Undef

\* the targets of all comments that start on line l
TargetsAnchoredOn(l) ==
    UNION {{<<k, t>> : t \in {u \in 1..Len(annotationComments[k].targetRanges) :
                                 annotationComments[k].targetRanges[u].start.line = l}} :
           k \in 1..Len(annotationComments)}

\* no line that the cleaner removes has a target anchored on it when the
\* targets come from the resolver
RemovedLinesHaveNoTargets ==
    Applies("removeLine") => TargetsAnchoredOn(NextChange.lineIndex) = {}

\* the target ranges that C11 expects after the removal of line l: those
\* anchored on l are gone, and of the others every location behind l is one
\* line further up
RECURSIVE RebasedAfterRemoveLine(_, _)
RebasedAfterRemoveLine(targetRanges, l) ==
    IF Len(targetRanges) = 0 THEN <<>>
    ELSE LET range == Head(targetRanges)
             moved == [start |-> [range.start EXCEPT
                                      !.line = IF @ > l THEN @ - 1 ELSE @],
                       end |-> [range.end EXCEPT
                                    !.line = IF @ > l THEN @ - 1 ELSE @]]
         IN (IF range.start.line = l THEN <<>> ELSE <<moved>>)
            \o RebasedAfterRemoveLine(Tail(targetRanges), l)

\* C11: with updateTargetRanges enabled, the removal of line L drops every
\* target range anchored on L from the targetRanges of its comment, moves
\* every remaining target location on a line behind L up by exactly one
\* line, and leaves the locations on lines before L as they are.
C11_RemoveLineRebasesTargets ==
    [][Applies("removeLine") /\ cleanOptions.updateTargetRanges =>
           /\ Len(annotationComments') = Len(annotationComments)
           /\ \A k \in 1..Len(annotationComments) :
                  annotationComments'[k].targetRanges =
                      RebasedAfterRemoveLine(annotationComments[k].targetRanges,
                                             NextChange.lineIndex)]_vars

\* the case of C11 that goes wrong: the cleaner is about to remove a line
\* that the first of two target ranges of a comment is anchored on
RemovesLineOfFirstTarget ==
    /\ Applies("removeLine")
    /\ \E k \in 1..Len(annotationComments) :
           /\ Len(annotationComments[k].targetRanges) > 1
           /\ annotationComments[k].targetRanges[1].start.line = NextChange.lineIndex

(***************************************************************************)
(* Properties of the multi-line locator                                    *)
(***************************************************************************)

\* the column of the first character of the comment that is not whitespace
OpenerColumn(comment) ==
    SearchNonWhitespaceFrom(originalCodeLines[comment.commentRange.start.line + 1],
                            StartColumnOf(comment.commentRange))

\* the column behind the last character of the comment that is not whitespace
CloserEndColumn(comment) ==
    Len(TrimEnd(Slice(originalCodeLines[comment.commentRange.end.line + 1], 0,
                      EndColumnOf(comment.commentRange))))

\* the comment is a block comment: its text starts with the opening and ends
\* with the closing sequence of one of the multi-line comment syntaxes
IsBlockComment(comment) ==
    \E k \in 1..Len(multiLineCommentSyntaxes) :
        LET syntax == multiLineCommentSyntaxes[k]
        IN /\ OpenerColumn(comment) > -1
           /\ StartsWithAt(originalCodeLines[comment.commentRange.start.line + 1],
                           syntax.opening, OpenerColumn(comment))
           /\ CloserEndColumn(comment) >= Len(syntax.closing)
           /\ StartsWithAt(originalCodeLines[comment.commentRange.end.line + 1],
                           syntax.closing, CloserEndColumn(comment) - Len(syntax.closing))

\* there is text other than whitespace in front of the comment on its first line
HasCodeBeforeStart(comment) ==
    ~IsBlank(Slice(originalCodeLines[comment.commentRange.start.line + 1], 0,
                   OpenerColumn(comment)))

\* there is text other than whitespace behind the comment on its last line
HasCodeAfterEnd(comment) ==
    ~IsBlank(SliceFrom(originalCodeLines[comment.commentRange.end.line + 1],
                       CloserEndColumn(comment)))

\* C21: no annotation comment comes from a block comment that starts and ends
\* on one line with text other than whitespace on both sides of it, or that
\* spans several lines and has such text in front of its opening sequence on
\* the first line or behind its closing sequence on the last line.
C21_InvalidPairYieldsNoComment ==
    \A k \in 1..Len(annotationComments) :
        LET comment == annotationComments[k]
        IN IsBlockComment(comment) =>
               IF comment.commentRange.start.line = comment.commentRange.end.line
               THEN ~(HasCodeBeforeStart(comment) /\ HasCodeAfterEnd(comment))
               ELSE ~HasCodeBeforeStart(comment) /\ ~HasCodeAfterEnd(comment)

\* the delimiter stands at column a of line l as the comment delimiter
\* regular expressions want it: with whitespace or a line boundary on
\* both sides
DelimiterStandsAt(delimiter, l, a) ==
    LET line == originalCodeLines[l + 1]
    IN /\ StartsWithAt(line, delimiter, a)
       /\ a = 0 \/ IsWhitespace(CharAt(line, a - 1))
       /\ \/ a + Len(delimiter) = Len(line)
          \/ IsWhitespace(CharAt(line, a + Len(delimiter)))

\* the opening sequence at column a of line lo and the closing sequence at
\* column b of line lc, both of one syntax, enclose the tag
EnclosesTag(syntax, lo, a, lc, b, tag) ==
    /\ DelimiterStandsAt(syntax.opening, lo, a)
    /\ DelimiterStandsAt(syntax.closing, lc, b)
    /\ \/ lo < tag.range.start.line
       \/ lo = tag.range.start.line /\ a + Len(syntax.opening) <= tag.range.start.column
    /\ \/ lc > tag.range.end.line
       \/ lc = tag.range.end.line /\ tag.range.end.column <= b

\* the columns of line l, and one more
ColumnsOf(l) == 0..Len(originalCodeLines[l + 1])

\* C21 witness: the parser is done, and a tag that a block comment of
\* several lines encloses, with code behind the closing sequence on the last
\* line, has got no comment
C21_Witness ==
    /\ pc = "parsed"
    /\ \E i \in ProcessedTags :
           /\ tagLog[i].outcome = "noComment"
           /\ \E k \in 1..Len(multiLineCommentSyntaxes), lo, lc \in LineIndices :
                  /\ lo < lc
                  /\ \E a \in ColumnsOf(lo), b \in ColumnsOf(lc) :
                         /\ EnclosesTag(multiLineCommentSyntaxes[k], lo, a, lc, b,
                                        annotationTags[i])
                         /\ ~IsBlank(SliceFrom(originalCodeLines[lc + 1],
                                               b + Len(multiLineCommentSyntaxes[k].closing)))

\* the positions of the code: line and column
Positions == UNION {{<<l, a>> : a \in ColumnsOf(l)} : l \in LineIndices}

\* position p is position q or comes before it
NotAfter(p, q) == p[1] < q[1] \/ (p[1] = q[1] /\ p[2] <= q[2])

\* the comment syntaxes that make no demands on the lines between the
\* opening and the closing sequence
PlainSyntaxes == {k \in 1..Len(multiLineCommentSyntaxes) :
                     ~multiLineCommentSyntaxes[k].continuationLineStart}

\* the opening sequence of syntax k stands at position p, and no longer
\* opening sequence stands there
OpeningOccursAt(k, p) ==
    /\ DelimiterStandsAt(multiLineCommentSyntaxes[k].opening, p[1], p[2])
    /\ \A j \in 1..Len(multiLineCommentSyntaxes) :
           Len(multiLineCommentSyntaxes[j].opening) > Len(multiLineCommentSyntaxes[k].opening)
               => ~DelimiterStandsAt(multiLineCommentSyntaxes[j].opening, p[1], p[2])

\* the closing sequence of syntax k stands at position p, and no longer
\* closing sequence stands there
ClosingOccursAt(k, p) ==
    /\ DelimiterStandsAt(multiLineCommentSyntaxes[k].closing, p[1], p[2])
    /\ \A j \in 1..Len(multiLineCommentSyntaxes) :
           Len(multiLineCommentSyntaxes[j].closing) > Len(multiLineCommentSyntaxes[k].closing)
               => ~DelimiterStandsAt(multiLineCommentSyntaxes[j].closing, p[1], p[2])

\* the position behind the opening sequence of syntax k at position p
OpeningEnd(k, p) == <<p[1], p[2] + Len(multiLineCommentSyntaxes[k].opening)>>

\* the position behind the closing sequence of syntax k at position p
ClosingEnd(k, p) == <<p[1], p[2] + Len(multiLineCommentSyntaxes[k].closing)>>

TagStart(tag) == <<tag.range.start.line, tag.range.start.column>>

TagEnd(tag) == <<tag.range.end.line, tag.range.end.column>>

\* the opening sequences of syntax k that end before the tag
OpeningsBefore(k, tag) ==
    {p \in Positions : OpeningOccursAt(k, p) /\ NotAfter(OpeningEnd(k, p), TagStart(tag))}

\* the closing sequences of syntax k that start behind the tag
ClosingsAfter(k, tag) ==
    {p \in Positions : ClosingOccursAt(k, p) /\ NotAfter(TagEnd(tag), p)}

\* the candidate pair of syntax k for the tag: the opening sequence before
\* the tag and the closing sequence behind the tag that are nearest to it
CandidatePairs(k, tag) ==
    {<<k, o, c>> : o \in {p \in OpeningsBefore(k, tag) :
                             \A q \in OpeningsBefore(k, tag) : NotAfter(q, p)},
                   c \in {p \in ClosingsAfter(k, tag) :
                             \A q \in ClosingsAfter(k, tag) : NotAfter(p, q)}}

\* the pair keeps the rules for comments next to code, and nothing but
\* whitespace stands before the tag on its line, behind the opening sequence
\* if that is on the tag's line
IsValidPair(pair, tag) ==
    LET k == pair[1]
        o == pair[2]
        c == pair[3]
        codeBefore == ~IsBlank(Slice(originalCodeLines[o[1] + 1], 0, o[2]))
        codeAfter == ~IsBlank(SliceFrom(originalCodeLines[c[1] + 1], ClosingEnd(k, c)[2]))
    IN /\ IF o[1] = c[1] THEN ~(codeBefore /\ codeAfter) ELSE ~codeBefore /\ ~codeAfter
       /\ IsBlank(Slice(originalCodeLines[tag.range.start.line + 1],
                        IF o[1] = tag.range.start.line THEN OpeningEnd(k, o)[2] ELSE 0,
                        tag.range.start.column))

\* the pairs that validly enclose the tag
ValidPairs(tag) ==
    {pair \in UNION {CandidatePairs(k, tag) : k \in PlainSyntaxes} : IsValidPair(pair, tag)}

\* the valid pairs that lie inside every valid pair: no opening sequence
\* ends nearer to the tag, and no closing sequence starts nearer to it
InnermostPairs(tag) ==
    {pair \in ValidPairs(tag) :
        \A other \in ValidPairs(tag) :
            /\ NotAfter(OpeningEnd(other[1], other[2]), OpeningEnd(pair[1], pair[2]))
            /\ NotAfter(pair[3], other[3])}

\* the comment starts with the opening and ends with the closing sequence
\* of the pair
IsCommentOfPair(comment, pair) ==
    /\ comment.commentRange.start.line = pair[2][1]
    /\ OpenerColumn(comment) = pair[2][2]
    /\ comment.commentRange.end.line = pair[3][1]
    /\ CloserEndColumn(comment) = ClosingEnd(pair[1], pair[3])[2]

\* the tag is left to the multi-line locator
IsLeftToMultiLineLocator(i) ==
    /\ tagLog[i].outcome \in {"added", "noComment"}
    /\ ~parseSingleLineParentComment(originalCodeLines, annotationTags[i]).found

TextBeforeTag(tag) ==
    Slice(originalCodeLines[tag.range.start.line + 1], 0, tag.range.start.column)

\* the single-line comment syntaxes that open a comment right in front of
\* the tag: the syntax stands at the start of the line or behind whitespace
\* and only whitespace, at least one character, separates it from the tag
OpenersOfTag(tag) ==
    {s \in 1..Len(singleLineCommentSyntaxes) :
        LET syntax == singleLineCommentSyntaxes[s]
            text == TrimEnd(TextBeforeTag(tag))
            at == Len(text) - Len(syntax)
        IN /\ Len(text) < Len(TextBeforeTag(tag))
           /\ at >= 0
           /\ StartsWithAt(text, syntax, at)
           /\ at = 0 \/ IsWhitespace(CharAt(text, at - 1))}

\* the comment of the tag starts on its own line
StartsOnOwnLine(tag, syntax) == Trim(TextBeforeTag(tag)) = syntax

\* another comment of the same syntax with a tag opening sequence follows
\* the tag on its line
IsChained(tag, syntax) ==
    LET line == originalCodeLines[tag.range.start.line + 1]
    IN \E a \in tag.range.end.column..Len(line) :
           /\ a > 0 /\ IsWhitespace(CharAt(line, a - 1))
           /\ StartsWithAt(line, syntax, a)
           /\ WhitespaceRunEnd(line, a + Len(syntax)) > a + Len(syntax)
           /\ StartsWithAt(line, <<"[", "!">>, WhitespaceRunEnd(line, a + Len(syntax)))

\* line l repeats the opener: its first text is the comment syntax, with
\* whitespace or the end of the line behind it
RepeatsOpener(l, syntax) ==
    LET line == originalCodeLines[l + 1]
        first == SearchNonWhitespace(line)
    IN /\ first > -1
       /\ StartsWithAt(line, syntax, first)
       /\ \/ first + Len(syntax) = Len(line)
          \/ IsWhitespace(CharAt(line, first + Len(syntax)))

\* the content of a line that repeats the opener
ContinuationContent(l, syntax) ==
    LET line == originalCodeLines[l + 1]
    IN Trim(SliceFrom(line, SearchNonWhitespace(line) + Len(syntax)))

\* the line goes on with the content of the comment: it repeats the opener,
\* does not start a tag with [! and is not the separator
ContinuesComment(l, syntax) ==
    /\ RepeatsOpener(l, syntax)
    /\ ~StartsWithAt(ContinuationContent(l, syntax), <<"[", "!">>, 0)
    /\ ContinuationContent(l, syntax) # <<"-", "-", "-">>

\* the number of lines behind line l that go on with the comment
RECURSIVE ContinuedLineCount(_, _)
ContinuedLineCount(l, syntax) ==
    IF l + 1 < Len(originalCodeLines) /\ ContinuesComment(l + 1, syntax)
    THEN 1 + ContinuedLineCount(l + 1, syntax)
    ELSE 0

\* the line behind the continued lines holds the separator
EndsWithSeparator(l, syntax) ==
    LET next == l + ContinuedLineCount(l, syntax) + 1
    IN /\ next < Len(originalCodeLines)
       /\ RepeatsOpener(next, syntax)
       /\ ContinuationContent(next, syntax) = <<"-", "-", "-">>

\* the content behind the tag on its line, as a list of no or one text
TagLineContents(comment) ==
    LET text == Trim(Slice(originalCodeLines[comment.tag.range.start.line + 1],
                           comment.tag.range.end.column,
                           IF comment.commentRange.end.line = comment.tag.range.start.line
                           THEN EndColumnOf(comment.commentRange)
                           ELSE Len(originalCodeLines[comment.tag.range.start.line + 1])))
    IN IF Len(text) > 0 THEN <<text>> ELSE <<>>

\* C23: a single-line annotation comment ends on the line of its tag unless
\* it starts on its own line and is not chained; then it covers every
\* following line that repeats its opener, up to the first line that does
\* not, or whose content starts a tag with [!, or whose content is ---; the
\* --- line belongs to the comment range, but not to the contents.
C23_SingleLineContinuation ==
    \A k \in 1..Len(annotationComments) :
        LET comment == annotationComments[k]
            tag == comment.tag
            l == tag.range.start.line
        IN \A s \in OpenersOfTag(tag) :
               LET syntax == singleLineCommentSyntaxes[s]
                   extends == StartsOnOwnLine(tag, syntax) /\ ~IsChained(tag, syntax)
                   count == IF extends THEN ContinuedLineCount(l, syntax) ELSE 0
                   separator == extends /\ EndsWithSeparator(l, syntax)
               IN /\ comment.commentRange.end.line =
                         l + count + (IF separator THEN 1 ELSE 0)
                  /\ comment.contents =
                         TagLineContents(comment)
                         \o [j \in 1..count |-> ContinuationContent(l + j, syntax)]

\* C23 witness: the parser is done, and a comment on its own line covers a
\* continued line and the separator line behind it: two lines of content
\* in three lines of comment
C23_Witness ==
    /\ pc = "parsed"
    /\ \E k \in 1..Len(annotationComments) :
           LET comment == annotationComments[k]
           IN /\ OpenersOfTag(comment.tag) # {}
              /\ comment.commentRange.end.line = comment.tag.range.start.line + 2
              /\ Len(comment.contents) = 2
              /\ ContinuationContent(comment.commentRange.end.line, <<"/", "/">>)
                     = <<"-", "-", "-">>

(***************************************************************************)
(* Properties of the ranges of a comment                                   *)
(***************************************************************************)

\* the range lies on lines of the code
IsOnCodeLines(range) == range.start.line \in LineIndices /\ range.end.line \in LineIndices

\* range inner lies within range outer: it starts no earlier and ends no later
IsWithin(inner, outer) ==
    /\ IsOnCodeLines(inner)
    /\ IsOnCodeLines(outer)
    /\ NotAfter(<<outer.start.line, StartColumnOf(outer)>>,
                <<inner.start.line, StartColumnOf(inner)>>)
    /\ NotAfter(<<inner.end.line, EndColumnOf(inner)>>,
                <<outer.end.line, EndColumnOf(outer)>>)

SharesTagLineWithCode(comment) ==
    LET l == comment.tag.range.start.line
    IN /\ comment.commentRange.start.line = l
       /\ comment.commentRange.end.line = l
       /\ \/ comment.commentRange.start.column # Undef
          \/ comment.commentRange.end.column # Undef

\* What holds of C24: the annotationRange lies within the commentRange for
\* every single-line comment, and for every block comment that does not
\* share the line of its tag with code.
C24_WithinCommentRangeOffCodeLines ==
    \A k \in 1..Len(annotationComments) :
        LET comment == annotationComments[k]
        IN ~(IsBlockComment(comment) /\ SharesTagLineWithCode(comment)) =>
               IsWithin(comment.annotationRange, comment.commentRange)

(***************************************************************************)
(* Properties of the cleaned code                                          *)
(***************************************************************************)

\* the annotation comments with their tag on line l of the original code
CommentsOnLine(l) ==
    {k \in 1..Len(annotationComments) : annotationComments[k].tag.range.start.line = l}

\* line l of the original code holds code followed by one annotation
\* comment without contents that ends the line: nothing but whitespace and
\* the closing sequence of a block comment stands behind the tag, and the
\* line is not part of another annotation comment
HasTrailingEmptyComment(l) ==
    /\ Cardinality(CommentsOnLine(l)) = 1
    /\ \A j \in 1..Len(annotationComments) :
           \/ j \in CommentsOnLine(l)
           \/ annotationComments[j].commentRange.end.line < l
           \/ annotationComments[j].commentRange.start.line > l
    /\ \A k \in CommentsOnLine(l) :
           LET comment == annotationComments[k]
           IN /\ comment.commentRange.start.line = l
              /\ comment.commentRange.end.line = l
              /\ Len(comment.contents) = 0
              /\ OpenerColumn(comment) > -1
              /\ HasCodeBeforeStart(comment)
              /\ Trim(SliceFrom(originalCodeLines[l + 1], comment.tag.range.end.column))
                     \in {<<>>} \cup {multiLineCommentSyntaxes[s].closing :
                                          s \in 1..Len(multiLineCommentSyntaxes)}

\* the code in front of the comment on line l, without the whitespace
\* that separates the two
CodeTextOf(l) ==
    LET k == CHOOSE k \in CommentsOnLine(l) : TRUE
    IN TrimEnd(Slice(originalCodeLines[l + 1], 0, OpenerColumn(annotationComments[k])))

\* the index that line l of the original code has in the cleaned code
CleanedIndexOf(l) == l - Cardinality({j \in 0..(l - 1) : IsRemovedLine(j)})

\* C25: when cleanCode is done with the default options, a line that held
\* code followed by an annotation comment without contents holds exactly
\* the code: the comment and the whitespace in front of it are gone, and
\* the line does not end with whitespace.
C25_TrailingCommentLeavesCode ==
    (pc = "cleaned" /\ cleanOptions = DefaultCleanOptions) =>
        \A l \in LineIndices :
            HasTrailingEmptyComment(l) =>
                /\ CleanedIndexOf(l) < Len(codeLines)
                /\ codeLines[CleanedIndexOf(l) + 1] = CodeTextOf(l)
                /\ TrimEnd(codeLines[CleanedIndexOf(l) + 1]) = codeLines[CleanedIndexOf(l) + 1]

\* C25 witness: cleanCode is done with the default options, and the line
\* x // [!n] of the original code has become x
C25_Witness ==
    /\ pc = "cleaned"
    /\ cleanOptions = DefaultCleanOptions
    /\ \E l \in LineIndices :
           /\ originalCodeLines[l + 1] = LnCodeNote
           /\ HasTrailingEmptyComment(l)
           /\ codeLines[CleanedIndexOf(l) + 1] = LnCode

\* C26: cleanCode called with an empty annotationComments list is a no-op:
\* it plans no change, so it runs no iteration that could call a hook, and
\* codeLines stays as it was passed in.
C26_NoCommentsNoChanges ==
    (pc \in {"cleaning", "cleaned"} /\ Len(annotationComments) = 0) =>
        /\ pc = "cleaned"
        /\ rangesToBeRemoved = <<>>
        /\ changes = <<>>
        /\ changeIndex = 0
        /\ codeLines = originalCodeLines

\* C26 witness: cleanCode has returned for code of several lines without
\* annotation comments, called with both hooks
C26_Witness ==
    /\ pc = "cleaned"
    /\ Len(annotationComments) = 0
    /\ Len(codeLines) > 1
    /\ cleanOptions.handleRemoveLine # "none"
    /\ cleanOptions.handleEditLine # "none"

(***************************************************************************)
(* Properties of the content ranges                                        *)
(***************************************************************************)

\* the columns of line l that the range covers, as a pair of a first column
\* and a column behind the last one
ColumnsOnLine(range, l) ==
    <<IF range.start.line < l THEN 0 ELSE StartColumnOf(range),
      IF range.end.line > l THEN Len(originalCodeLines[l + 1]) ELSE EndColumnOf(range)>>

\* the range has characters on line l
TouchesLine(range, l) == range.start.line <= l /\ l <= range.end.line

\* the two ranges share a character of line l
OverlapOnLine(first, second, l) ==
    /\ TouchesLine(first, l)
    /\ TouchesLine(second, l)
    /\ \E c \in ColumnsOf(l) :
           /\ ColumnsOnLine(first, l)[1] <= c /\ c < ColumnsOnLine(first, l)[2]
           /\ ColumnsOnLine(second, l)[1] <= c /\ c < ColumnsOnLine(second, l)[2]

\* the ranges of line l that excludeRangesFromOuterRange returns for the
\* line as the outer range and the comment ranges of all annotation comments
\* as exclusions: the text that the resolver searches
ContentRangesOfLine(l) ==
    excludeRangesFromOuterRange(originalCodeLines, createSingleLineRange(l),
                                CommentRangesOf(annotationComments))

\* the range is a range of line l with its columns in order and on the line
LiesOnLine(range, l) ==
    /\ range.start.line = l
    /\ range.end.line = l
    /\ 0 <= StartColumnOf(range)
    /\ StartColumnOf(range) <= EndColumnOf(range)
    /\ EndColumnOf(range) <= Len(originalCodeLines[l + 1])

\* C27: every range that excludeRangesFromOuterRange returns lies inside the
\* outer range and overlaps none of the exclusions: for every line of the
\* parsed code, the ranges left of the line after excluding the comment
\* ranges of all annotation comments lie on the line and share no character
\* with the comment range of any annotation comment.
C27_RemainingRangesAvoidExclusions ==
    pc = "parsed" =>
        \A l \in LineIndices :
            \A r \in 1..Len(ContentRangesOfLine(l)) :
                /\ LiesOnLine(ContentRangesOfLine(l)[r], l)
                /\ \A k \in 1..Len(annotationComments) :
                       ~OverlapOnLine(ContentRangesOfLine(l)[r],
                                      annotationComments[k].commentRange, l)

\* the comment ranges of at most one annotation comment reach line l
HasOneExclusionAtMost(l) ==
    Cardinality({k \in 1..Len(annotationComments) :
                     TouchesLine(annotationComments[k].commentRange, l)}) <= 1

\* C27, for lines with one exclusion at most: the remaining ranges lie on
\* the line and share no character with the excluded comment range.
C27_RemainingRangesAvoidOneExclusion ==
    pc = "parsed" =>
        \A l \in LineIndices :
            HasOneExclusionAtMost(l) =>
                \A r \in 1..Len(ContentRangesOfLine(l)) :
                    /\ LiesOnLine(ContentRangesOfLine(l)[r], l)
                    /\ \A k \in 1..Len(annotationComments) :
                           ~OverlapOnLine(ContentRangesOfLine(l)[r],
                                          annotationComments[k].commentRange, l)

\* C27, the consequence for the search: no target range that a search query
\* has matched shares a character with the comment range of an annotation
\* comment.
C27_SearchTargetsAvoidComments ==
    pc = "targeted" =>
        \A j \in 1..Len(annotationComments) :
            annotationComments[j].tag.targetSearchQuery.kind # "undefined" =>
            \A t \in 1..Len(annotationComments[j].targetRanges) :
                \A k \in 1..Len(annotationComments) :
                    \A l \in LineIndices :
                        ~OverlapOnLine(annotationComments[j].targetRanges[t],
                                       annotationComments[k].commentRange, l)

(***************************************************************************)
(* Properties of tags inside contents                                      *)
(***************************************************************************)

\* the annotation comment that was accepted last has a content range that
\* the range of the tag lies in
LiesInLastContents(tag) ==
    /\ Len(annotationComments) > 0
    /\ \E c \in 1..Len(annotationComments[Len(annotationComments)].contentRanges) :
           IsWithin(tag.range, annotationComments[Len(annotationComments)].contentRanges[c])

\* C28: a tag whose range lies inside a content range of the annotation
\* comment that was accepted last is skipped: processing it adds no comment
\* and changes neither the line cutoff nor an ignore counter of a name.
C28_TagInContentsIsSkipped ==
    [][(/\ pc = "tags"
        /\ tagIndex < Len(annotationTags)
        /\ LiesInLastContents(annotationTags[tagIndex + 1])) =>
           /\ annotationComments' = annotationComments
           /\ tagsIgnoredUntilLineIndex' = tagsIgnoredUntilLineIndex
           /\ ignoreCountPerTagName' = ignoreCountPerTagName]_vars

\* C28 witness: the parser is done; the last tag, which lies inside the
\* contents of the only comment, was skipped while an ignore counter of its
\* name was set, and the counter is still set
C28_Witness ==
    /\ pc = "parsed"
    /\ Len(annotationComments) = 1
    /\ LiesInLastContents(annotationTags[Len(annotationTags)])
    /\ tagLog[Len(tagLog)].outcome = "inPreviousContent"
    /\ IgnoreCount(ignoreCountPerTagName, annotationTags[Len(annotationTags)].name) > 0

(***************************************************************************)
(* Properties of the match search                                          *)
(***************************************************************************)

\* the search term of the match search that is running
SearchQueryOfSearch == annotationComments[lineSearch.comment].tag.targetSearchQuery

\* this step is an iteration of the while loop of a plaintext search
IteratesMatchSearch ==
    /\ pc = "searching"
    /\ lineSearch.idx > -1
    /\ Len(lineSearch'.ranges) = Len(lineSearch.ranges) + 1

\* C29: target resolution terminates for every tag the scanner can produce,
\* a tag with an empty quoted search query among them, because each match
\* search of a line makes progress: every iteration of its loop either ends
\* the loop or moves the place where the next match is looked for to the
\* right.
C29_MatchSearchMakesProgress ==
    [][IteratesMatchSearch =>
           (lineSearch'.idx = -1 \/ lineSearch'.idx > lineSearch.idx)]_vars

\* C29, for search terms of one character at least: every iteration ends
\* the loop or moves on to the right.
C29_SearchForTextMakesProgress ==
    [][(IteratesMatchSearch /\ Len(SearchQueryOfSearch.source) > 0) =>
           (lineSearch'.idx = -1 \/ lineSearch'.idx > lineSearch.idx)]_vars

\* A match search that has returned has found the ranges that
\* findSearchQueryMatchesInLine has as its value.
C29_SearchReturnsMatches ==
    (pc = "searched"
     /\ (SearchQueryOfSearch.kind = "string" => Len(SearchQueryOfSearch.source) > 0)) =>
        lineSearch.ranges = findSearchQueryMatchesInLine(codeLines, annotationComments,
                                                         lineSearch.lineIndex,
                                                         SearchQueryOfSearch)

\* A match search for the empty string is running, and it has pushed
\* MaxMatches ranges, each of them empty and at the start of the content
C29_EmptySearchSpins ==
    /\ pc = "searching"
    /\ SearchQueryOfSearch.kind = "string"
    /\ Len(SearchQueryOfSearch.source) = 0
    /\ lineSearch.idx = 0
    /\ Len(lineSearch.ranges) = MaxMatches
    /\ \A m \in 1..Len(lineSearch.ranges) : lineSearch.ranges[m] = lineSearch.ranges[1]

(***************************************************************************)
(* Properties of the target ranges after cleaning                          *)
(***************************************************************************)

\* the annotation comments as the parser has returned them, before the
\* resolver has filled in their target ranges
CommentsWithoutTargets ==
    [k \in 1..Len(annotationComments) |->
        [annotationComments[k] EXCEPT !.targetRanges = <<>>]]

\* the target ranges of comment k in the original code
OriginalTargetRanges(k) ==
    ResolveTargets(originalCodeLines, CommentsWithoutTargets,
                   CommentsWithoutTargets[k]).targetRanges

\* no character of the range in the original code is removed by the cleaner
OverlapsNoRemoval(range) ==
    \A position \in CharactersOf(range) : ~IsRemoved(position[1], position[2])

\* the text that a range of one line selects in the lines
SelectedText(lines, range) ==
    Slice(lines[range.start.line + 1],
          IF range.start.column = Undef THEN 0 ELSE range.start.column,
          IF range.end.column = Undef THEN Len(lines[range.end.line + 1])
          ELSE range.end.column)

\* the lines and columns of the range are not negative, its start is not
\* behind its end, and it lies on one line of the lines
IsSoundRangeOf(lines, range) ==
    /\ range.start.line >= 0
    /\ range.start.line = range.end.line
    /\ range.end.line < Len(lines)
    /\ range.start.column = Undef \/ range.start.column >= 0
    /\ range.end.column = Undef \/ range.end.column >= 0
    /\ (range.start.column # Undef /\ range.end.column # Undef) =>
           range.start.column <= range.end.column
    /\ range.end.column # Undef => range.end.column <= Len(lines[range.end.line + 1])

\* cleanCode has returned, it has updated the target ranges and no hook
\* has kept it from editing the code
HasCleanedAndUpdated ==
    /\ pc = "cleaned"
    /\ cleanOptions.updateTargetRanges
    /\ ~HandlesChange(cleanOptions.handleRemoveLine)
    /\ ~HandlesChange(cleanOptions.handleEditLine)

\* C30: after cleanCode with updateTargetRanges enabled, every remaining
\* target range that did not overlap removed text has lines and columns that
\* are not negative, does not start behind its end, and selects in the
\* cleaned code the text that it selected in the original code.
C30_RemainingTargetsSelectSameText ==
    HasCleanedAndUpdated =>
        \A k \in 1..Len(annotationComments) :
            /\ Len(annotationComments[k].targetRanges) = Len(OriginalTargetRanges(k))
            /\ \A t \in 1..Len(annotationComments[k].targetRanges) :
                   OverlapsNoRemoval(OriginalTargetRanges(k)[t]) =>
                       /\ IsSoundRangeOf(codeLines, annotationComments[k].targetRanges[t])
                       /\ SelectedText(codeLines, annotationComments[k].targetRanges[t])
                              = SelectedText(originalCodeLines, OriginalTargetRanges(k)[t])

\* the range ends, in the original code, at a column where a removal starts
EndsWhereRemovalStarts(range) ==
    /\ range.end.column # Undef
    /\ \E m \in 1..Len(MergedRemovals) :
           /\ MergedRemovals[m].start.line = range.end.line
           /\ StartColumnOf(MergedRemovals[m]) = range.end.column

\* C30, for the target ranges that do not end where a removal starts: they
\* are sound after cleaning and select the text they selected before.
C30_TargetsOffRemovalsSelectSameText ==
    HasCleanedAndUpdated =>
        \A k \in 1..Len(annotationComments) :
            /\ Len(annotationComments[k].targetRanges) = Len(OriginalTargetRanges(k))
            /\ \A t \in 1..Len(annotationComments[k].targetRanges) :
                   (/\ OverlapsNoRemoval(OriginalTargetRanges(k)[t])
                    /\ ~EndsWhereRemovalStarts(OriginalTargetRanges(k)[t])) =>
                       /\ IsSoundRangeOf(codeLines, annotationComments[k].targetRanges[t])
                       /\ SelectedText(codeLines, annotationComments[k].targetRanges[t])
                              = SelectedText(originalCodeLines, OriginalTargetRanges(k)[t])

====
